---- MODULE Spec2Model ----
(***************************************************************************)
(* The resumable scan of fbfh-trade: the identifier stream (vat.py), the   *)
(* polling client and its fatal stop (api_client.py), the durable store    *)
(* (persistence.py) and the orchestrator loop (scripts/runner.py main).    *)
(*                                                                         *)
(* Identifiers are the integers int(ban_no); the 8-digit string is         *)
(* f"{n:08d}".  The identifier space 0..99_999_999 is scaled down to       *)
(* 0..UpperBound; the checksum is computed on the 8 digits as in the code. *)
(* The result maps are keyed by identifier (the period is one fixed        *)
(* --year per run).  A process is one run of main(); runs follow each      *)
(* other on the same files.  The user interrupt (KeyboardInterrupt) is     *)
(* delivered while the process is blocked: in session.post, in a 429       *)
(* sleep, or between two identifiers (the pacing sleep).  A kill (SIGKILL, *)
(* power loss) can hit at every step, also in the middle of a file write.  *)
(*                                                                         *)
(* Four specifications: Spec (successive runs, one command line), SpecPoll *)
(* (one run, every command line), SpecFiles (one run on files that may not *)
(* parse) and SpecStore (save_state / save_json on one target path, with   *)
(* its .bak.<ts> files and the wall clock).  The saves of a run leave the  *)
(* backups out: no run reads them.                                         *)
(*                                                                         *)
(* The pure functions have specifications of their own, on the full        *)
(* identifier space: SpecVat (the checksum on 8-character strings),        *)
(* SpecStream (the generator near 99_999_999), SpecRows (row selection and *)
(* classification on field values) and SpecWait (the 429 wait of one       *)
(* polling call).                                                          *)
(*                                                                         *)
(* The code around the scan has specifications as well: SpecCall (one      *)
(* polling call under every retry ceiling, the process kept running),      *)
(* SpecSolo (the single-file runner src/runner.py: one polling call, its   *)
(* fatal stop and its write_text saves), SpecLoad (load_json on every kind *)
(* of JSON root), SpecBuild (one build_and_save of company_details.json),  *)
(* SpecRecon (the startup reconciliation of main) and SpecChecks           *)
(* (run_checks of scripts/check_and_run.py).                               *)
(***************************************************************************)
EXTENDS Integers, Sequences, FiniteSets, TLC

\* ---------------------------------------------------------------- bounds
\* the largest identifier of the scaled-down space (99_999_999 in vat.py)
UpperBound == 5
\* number of runs of main() in one behaviour
MaxRuns == 2
\* the server answers at most this many consecutive 429 to one identifier
MaxTries == 3
\* token values are 0..MaxToken
MaxToken == 1
\* the largest --max-429-retries ceiling tried
MaxCeiling == 2
\* the wall clock of the store shows the seconds 0..MaxClock
MaxClock == 1
\* number of save calls on the store in one behaviour
MaxSaves == 4
\* the payloads saved are 0..MaxContent
MaxContent == 1
\* the largest PERSIST_BACKUP_KEEP tried
MaxKeep == 2
\* the generator is started at most this far below its upper bound
StreamSpan == 30
\* the server answers at most this many 429 within one polling call when
\* the waits are computed
MaxWaitTries == 3
\* the server lets the standalone client refresh its token at most this
\* many times within one polling call
MaxRefreshes == 3

None == 0 - 1

\* api_client.py:24 -- the token the process starts with
InitialToken == 0

Ids == 0..UpperBound

\* ------------------------------------------------------- checksum (vat.py)
WEIGHTS == <<1, 2, 1, 2, 1, 2, 4, 1>>

\* i-th character (1..8) of f"{n:08d}" as a digit
Digit(n, i) == (n \div (10 ^ (8 - i))) % 10

sum_digits(p) == (p \div 10) + (p % 10)

RECURSIVE SumFolded(_, _)
SumFolded(n, i) ==
    IF i = 0 THEN 0
    ELSE sum_digits(Digit(n, i) * WEIGHTS[i]) + SumFolded(n, i - 1)

\* z_total of explain_uniform_number
explain_uniform_number(n) == SumFolded(n, 8)

is_valid_uniform_number(n) ==
    LET z == explain_uniform_number(n)
    IN  \/ z % 5 = 0
        \/ (Digit(n, 7) = 7 /\ (z + 1) % 5 = 0)

\* len(start) == 8 and start.isdigit() for start = f"{n:08d}"
EightDigits(n) == n >= 0 /\ n <= UpperBound

\* the next value uniform_number_stream yields when its loop variable is n
StreamNextExclusive(n) ==
    IF \E m \in (n + 1)..UpperBound : is_valid_uniform_number(m)
    THEN CHOOSE m \in (n + 1)..UpperBound :
            /\ is_valid_uniform_number(m)
            /\ \A k \in (n + 1)..(m - 1) : ~is_valid_uniform_number(k)
    ELSE None

StreamSkippingStart(n) == StreamNextExclusive(n)

\* the first value uniform_number_stream(f"{n:08d}") yields: start included
uniform_number_stream(n) ==
    IF \E m \in n..UpperBound : is_valid_uniform_number(m)
    THEN CHOOSE m \in n..UpperBound :
            /\ is_valid_uniform_number(m)
            /\ \A k \in n..(m - 1) : ~is_valid_uniform_number(k)
    ELSE None

ValidIds == {m \in Ids : is_valid_uniform_number(m)}

\* ------------------------------------------------------------------ state
VARIABLES
    \* command line and installation, fixed for a behaviour
    max_429_retries, checkpoint_every, refresh_available, runsLeft,
    \* files
    disk, tmp, errlog,
    \* the running process
    pc, start_int, last_legal, vat, processed, tries, did_refresh_vhs,
    VERIFY_S_HIDDEN, hits, ok_map, row, writeQ, wphase, after,
    outcome, exit_status,
    \* history of the current run
    override, runStart, cursorAtStart, reqs, firstReq, lastReq, reqToken,
    retryOf,
    refreshCalls, refreshMisuse, failAfterRefresh,
    fatalId, fatalReason, fatalEntry, handlerRan, done, wantOk, wantHits, inflight,
    anomalyAt, echoDiff,
    \* history of the previous run
    prevOutcome, prevStart, prevDone, prevFatalId,
    \* the files moved aside as .corrupt.<ts>
    moved,
    \* persistence.py on one target path: its settings, the target, its
    \* .bak.<ts> files, its .tmp file, the wall clock, the save in progress
    BACKUP_KEEP, BACKUP_ENABLED, target, backups, tmpfile, now, mclock,
    spc, payload,
    \* history of the saves on that path
    prior, versions, calls, lastCall, aborted,
    \* one call of is_valid_uniform_number: argument, result, position
    uniform_number, vresult, vpc,
    \* one generator uniform_number_stream(start): its loop variable, what it
    \* has yielded, its position
    gstart, gn, yielded, gpc,
    \* the parsing of one payload: retrieveDataList, --year, the row picked,
    \* what the loop body does with it, position
    items, target_year, picked, kind, row_ok, row_hit, rpc,
    \* the 429 waits of one call of the polling client
    cooldown_on_warn, tries429, consec429, ra_hdr, wait_sec, wpc, refreshed,
    \* the standalone runner (src/runner.py): one polling call for solo_ban,
    \* its fatal stop and the files it writes with write_text
    solo_ban, solo_token, solo_did_refresh, solo_tries, solo_refreshes,
    solo_pc, solo_reason, solo_hits, solo_ok, solo_disk, solo_before,
    solo_wq, solo_open,
    \* one load_json(path) of persistence.py and what main() does with the
    \* value: the file, the value returned, the entries appended to
    \* errors.log, position
    jpath, jfile, jresult, jlog, jpc,
    \* hits.json, company_details.json and the data rows of
    \* company_details.xlsx; one call of build_and_save: its locals, its
    \* position, the pairs it has requested, its writes and token requests,
    \* the output file as it was at the call
    hits_json, details_json, xlsx_rows, existing, missing_pairs, bpc,
    fetched, bwrites, token_reqs, at_call,
    \* the startup reconciliation of main(): the two pair counts, position
    det_cnt, hits_cnt, qpc,
    \* run_checks: position, prev
    cpc, prev

envVars  == <<max_429_retries, checkpoint_every, refresh_available>>
fileVars == <<disk, tmp, errlog, moved>>
procVars == <<start_int, last_legal, vat, processed, tries, did_refresh_vhs,
              VERIFY_S_HIDDEN, hits, ok_map, row>>
saveVars == <<writeQ, wphase, after>>
exitVars == <<outcome, exit_status>>
reqVars  == <<reqs, firstReq, lastReq, reqToken>>
histVars == <<override, runStart, cursorAtStart, retryOf, refreshCalls,
              refreshMisuse, failAfterRefresh, fatalId, fatalReason, fatalEntry,
              handlerRan, done, wantOk, wantHits, inflight, anomalyAt, echoDiff>>
runVars  == <<override, runStart, cursorAtStart>>
refreshGhosts == <<refreshMisuse, failAfterRefresh>>
prevVars == <<prevOutcome, prevStart, prevDone, prevFatalId>>

storeVars == <<BACKUP_KEEP, BACKUP_ENABLED, target, backups, tmpfile, now,
               mclock, spc, payload, prior, versions, calls, lastCall, aborted>>

mainVars == <<envVars, runsLeft, fileVars, pc, procVars, saveVars, exitVars,
              reqVars, histVars, prevVars>>

vatVars  == <<uniform_number, vresult, vpc>>
genVars  == <<gstart, gn, yielded, gpc>>
rowVars  == <<items, target_year, picked, kind, row_ok, row_hit, rpc>>
waitVars == <<cooldown_on_warn, tries429, consec429, ra_hdr, wait_sec, wpc,
              refreshed>>
soloVars == <<solo_ban, solo_token, solo_did_refresh, solo_tries,
              solo_refreshes, solo_pc, solo_reason, solo_hits, solo_ok,
              solo_disk, solo_before, solo_wq, solo_open>>
loadVars == <<jpath, jfile, jresult, jlog, jpc>>
coVars   == <<hits_json, details_json, xlsx_rows, existing, missing_pairs,
              bpc, fetched, bwrites, token_reqs, at_call, det_cnt, hits_cnt,
              qpc, cpc, prev>>
extVars  == <<soloVars, loadVars, coVars>>
auxVars  == <<vatVars, genVars, rowVars, waitVars, extVars>>

vars == <<mainVars, storeVars, auxVars>>

\* what the scripts around the scan leave alone
coreVars  == <<mainVars, storeVars, vatVars, genVars, rowVars, waitVars>>
soloFrame == <<coreVars, loadVars, coVars>>
loadFrame == <<coreVars, soloVars, coVars>>
buildFrame == <<coreVars, soloVars, loadVars>>

Files == {"state", "hits", "ok"}

Absent(f)   == [st |-> "absent", val |-> IF f = "state" THEN 0 ELSE {}]
Whole(v)    == [st |-> "whole", val |-> v]
Torn(f)     == [st |-> "torn", val |-> IF f = "state" THEN 0 ELSE {}]

\* -------------------------------------------------- persistence.py: loads
\* load_state: absent -> 0; unparsable -> moved aside, 0
load_state(d) == IF d.state.st = "whole" THEN d.state.val ELSE 0

LoadJsonIgnoringFile(d, f) == {}
\* load_json: absent -> {}; unparsable -> moved aside, {}
load_json(d, f) == IF d[f].st = "whole" THEN d[f].val ELSE {}

\* the files main() loads: --start replaces load_state
Loaded(ov) == IF ov # None THEN {"hits", "ok"} ELSE Files

\* path.unlink() in place of path.rename(corrupt)
MovedAsideDeleted(d, ov) == {}

\* path.rename(corrupt): the unparsable files, under their .corrupt.<ts> name
MovedAside(d, ov) ==
    {[file |-> f, bytes |-> d[f]] : f \in {g \in Loaded(ov) : d[g].st = "torn"}}

\* the files after the loads of main(): a corrupt file is renamed away
AfterLoads(d, ov) ==
    [f \in Files |-> IF f \in Loaded(ov) /\ d[f].st = "torn" THEN Absent(f) ELSE d[f]]

\* the diagnostic entries of the loads, in the order of the loads
CorruptEntries(d, ov) ==
    (IF "state" \in Loaded(ov) /\ d.state.st = "torn"
     THEN <<"Corrupt state.json moved">> ELSE <<>>)
    \o (IF d.hits.st = "torn" THEN <<"Corrupt data JSON moved">> ELSE <<>>)
    \o (IF d.ok.st = "torn" THEN <<"Corrupt data JSON moved">> ELSE <<>>)


\* ------------------------------------------------------ server responses
\* what one session.post can produce: a RequestException ("exc") or a
\* response with a status, a body, the result flag, the must-use-web
\* message, the echoed token, the retrieveDataList key and the picked row
Rows == {"none", "normal_flagged", "normal", "flagged", "plain"}

Responses ==
    {[status |-> s, body |-> "object", result |-> "success", web |-> FALSE,
      echo |-> None, list |-> TRUE, row |-> "none"] : s \in {"exc", "429", "500"}}
    \cup
    {[status |-> "200", body |-> b, result |-> "success", web |-> FALSE,
      echo |-> None, list |-> TRUE, row |-> "none"] : b \in {"garbage", "nonobject"}}
    \cup
    {[status |-> "200", body |-> "object", result |-> "fail", web |-> w,
      echo |-> None, list |-> TRUE, row |-> "none"] : w \in BOOLEAN}
    \cup
    {[status |-> "200", body |-> "object", result |-> "success", web |-> FALSE,
      echo |-> e, list |-> l, row |-> r] :
        e \in {None} \cup (0..MaxToken), l \in BOOLEAN, r \in Rows}

\* the branch of post_company_with_429_retry a response takes, in code order
ClassifyNoStatusCheck(r, token) ==
    IF r.status = "exc" THEN "RequestException"
    ELSE IF r.status = "429" THEN "429"
    ELSE IF r.body = "garbage" THEN "Response not JSON"
    ELSE IF r.body # "object" THEN "JSON root not object"
    ELSE IF r.result # "success" THEN "result != success"
    ELSE IF r.echo # None /\ r.echo # token THEN "verifySHidden mismatch"
    ELSE IF ~r.list THEN "Missing retrieveDataList"
    ELSE "payload"

Classify(r, token) ==
    IF r.status = "exc" THEN "RequestException"
    ELSE IF r.status = "429" THEN "429"
    ELSE IF r.status # "200" THEN "HTTP status"
    ELSE IF r.body = "garbage" THEN "Response not JSON"
    ELSE IF r.body # "object" THEN "JSON root not object"
    ELSE IF r.result # "success" THEN "result != success"
    ELSE IF r.echo # None /\ r.echo # token THEN "verifySHidden mismatch"
    ELSE IF ~r.list THEN "Missing retrieveDataList"
    ELSE "payload"

\* the branches that call fatal_stop_and_log unconditionally
FatalKinds == {"RequestException", "HTTP status", "Response not JSON",
               "JSON root not object", "verifySHidden mismatch",
               "Missing retrieveDataList"}

\* no 'Fatal stop' entry written by this process
NoEntry == [ban_no |-> None, reason |-> "none", response |-> FALSE]

FatalDetailsWithoutResponse(b, reason) ==
    [ban_no |-> b, reason |-> reason, response |-> FALSE]

\* the details of the 'Fatal stop' entry: ban_no and reason, and status_code,
\* headers and body_snippet when resp is not None; resp is None at the
\* RequestException call only
FatalDetails(b, reason) ==
    [ban_no |-> b, reason |-> reason, response |-> reason # "RequestException"]

\* the anomalous-response reasons (a response was received)
AnomalyReasons == (FatalKinds \ {"RequestException"}) \cup {"result != success"}

\* what get_verify_s_hidden can do: raise (-2), return "" or a non-string
\* (None), or return a token
RefreshResults == {0 - 2, None} \cup (0..MaxToken)

\* parsing_utils.py on the abstract row
row_is_normal(r) == r \in {"normal_flagged", "normal"}
RowFlagged(r)    == r \in {"normal_flagged", "flagged"}

\* ------------------------------------------------- cursors that are saved
FatalCursorSuccessor(ban_no) == ban_no + 1
\* fatal_stop_and_log: next_number = int(ban_no)
FatalCursor(ban_no) == ban_no

HandlerCursorNoSuccessor(ll, si) == IF ll # None THEN ll ELSE si
\* the interrupt and generic handlers: int(last_legal) + 1 if last_legal else start_int
HandlerCursor(ll, si) == IF ll # None THEN ll + 1 ELSE si

CheckpointCursorSkipping(v) == v + 2
\* the periodic checkpoint: next_number = int(vat) + 1
CheckpointCursor(v) == v + 1

CompletedCursorLast == UpperBound
\* the else branch of main: next_number = 100_000_000
CompletedCursor == UpperBound + 1

CeilingReachedUnguarded(t, m) == t >= m
CeilingReachedOnExcess(t, m) == m >= 0 /\ t > m
\* max_429_retries >= 0 and tries >= max_429_retries
CeilingReached(t, m) == m >= 0 /\ t >= m

DidRefreshForgotten(flag) == flag
\* did_refresh_vhs = True after a successful refresh
DidRefreshAfterRefresh(flag) == TRUE

\* except SystemExit: raise -- the exit of fatal_stop_and_log passes main's handlers
SystemExitPropagates == TRUE

ThreeWrites(cursor, h, o) ==
    << [file |-> "state", val |-> cursor],
       [file |-> "hits", val |-> h],
       [file |-> "ok", val |-> o] >>

\* ------------------------------------------------------------------ Init
\* persistence.py:32 -- PERSIST_BACKUP_KEEP when the environment does not set it
DefaultKeep == 1

NoFile == [st |-> "absent", val |-> None, mtime |-> 0]

\* the store before any save: no target, no backup, no .tmp
StoreIdle ==
    /\ target = NoFile /\ backups = {} /\ tmpfile = NoFile
    /\ now = 0 /\ mclock = 0
    /\ spc = "idle" /\ payload = None
    /\ prior = NoFile /\ versions = <<>> /\ calls = 0
    /\ lastCall = "none" /\ aborted = FALSE

\* no call of the checksum, no generator, no payload, no 429 in progress
VatIdle  == uniform_number = <<>> /\ vresult = "none" /\ vpc = "idle"
GenIdle  == gstart = 0 /\ gn = 0 /\ yielded = <<>> /\ gpc = "idle"
\* the None pick_year_row returns when no entry matches
NoRow == [list |-> FALSE, f |-> <<>>]
RowIdle  == /\ items = <<>> /\ target_year = <<>> /\ picked = NoRow
            /\ kind = "none" /\ row_ok = FALSE /\ row_hit = FALSE
            /\ rpc = "idle"
WaitIdle == /\ cooldown_on_warn = 0 /\ tries429 = 0 /\ consec429 = 0
            /\ ra_hdr = [kind |-> "none", v |-> 0] /\ wait_sec = 0
            /\ wpc = "idle" /\ refreshed = FALSE

\* the standalone runner is not running
SoloIdle ==
    /\ solo_ban = None /\ solo_token = InitialToken /\ solo_did_refresh = FALSE
    /\ solo_tries = 0 /\ solo_refreshes = 0 /\ solo_pc = "idle"
    /\ solo_reason = "none" /\ solo_hits = {} /\ solo_ok = {}
    /\ solo_disk = [f \in Files |-> Absent(f)]
    /\ solo_before = [f \in Files |-> Absent(f)]
    /\ solo_wq = <<>> /\ solo_open = "none"
\* no map is being loaded
LoadIdle ==
    /\ jpath = "none" /\ jfile = [kind |-> "absent", val |-> {}]
    /\ jresult = [type |-> "none", val |-> {}] /\ jlog = <<>> /\ jpc = "idle"
\* no build_and_save, no reconciliation, no run_checks
CoIdle ==
    /\ hits_json = [st |-> "absent", val |-> <<>>]
    /\ details_json = [st |-> "absent", val |-> <<>>]
    /\ xlsx_rows = 0 /\ existing = <<>> /\ missing_pairs = <<>>
    /\ bpc = "idle" /\ fetched = <<>> /\ bwrites = 0 /\ token_reqs = 0
    /\ at_call = [st |-> "absent", val |-> <<>>]
    /\ det_cnt = 0 /\ hits_cnt = 0 /\ qpc = "idle" /\ cpc = "idle" /\ prev = 0
ExtIdle == SoloIdle /\ LoadIdle /\ CoIdle

\* no process has run yet
NoProcess ==
    /\ tmp = [f \in Files |-> Absent(f)]
    /\ errlog = <<>>
    /\ moved = {}
    /\ pc = "idle"
    /\ start_int = 0 /\ last_legal = None /\ vat = None /\ processed = 0
    /\ tries = 0 /\ did_refresh_vhs = FALSE /\ VERIFY_S_HIDDEN = InitialToken
    /\ hits = {} /\ ok_map = {} /\ row = "none"
    /\ writeQ = <<>> /\ wphase = 0 /\ after = "none"
    /\ outcome = "none" /\ exit_status = 0
    /\ override = FALSE /\ runStart = 0 /\ cursorAtStart = Absent("state")
    /\ refreshMisuse = FALSE /\ failAfterRefresh = FALSE
    /\ reqs = {} /\ firstReq = None /\ lastReq = None /\ reqToken = None
    /\ retryOf = None /\ refreshCalls = 0
    /\ fatalId = None /\ fatalReason = "none" /\ handlerRan = FALSE
    /\ fatalEntry = NoEntry
    /\ done = {} /\ wantOk = {} /\ wantHits = {} /\ inflight = None
    /\ anomalyAt = None /\ echoDiff = FALSE
    /\ prevOutcome = "none" /\ prevStart = 0 /\ prevDone = {} /\ prevFatalId = None

\* nothing on disk, no process
Fresh ==
    /\ NoProcess
    /\ disk = [f \in Files |-> Absent(f)]

\* successive runs on the same files, under one command line:
\* --max-429-retries 0, --checkpoint-every 2, no verify_s_hidden_client module
Init ==
    /\ Fresh
    /\ StoreIdle /\ BACKUP_KEEP = DefaultKeep /\ BACKUP_ENABLED = TRUE
    /\ VatIdle /\ GenIdle /\ RowIdle /\ WaitIdle
    /\ max_429_retries = 0
    /\ checkpoint_every = 2
    /\ refresh_available = FALSE
    /\ runsLeft = MaxRuns
    /\ ExtIdle

\* one run, under every command line
InitPoll ==
    /\ Fresh
    /\ StoreIdle /\ BACKUP_KEEP = DefaultKeep /\ BACKUP_ENABLED = TRUE
    /\ VatIdle /\ GenIdle /\ RowIdle /\ WaitIdle
    /\ max_429_retries \in (0 - 1)..MaxCeiling
    /\ checkpoint_every \in {1, 2}
    /\ refresh_available \in BOOLEAN
    /\ runsLeft = 1
    /\ ExtIdle

\* --------------------------------------------------------------- helpers
\* one session.post for identifier b leaves the process
IssueRequest(b) ==
    /\ reqs' = reqs \cup {b}
    /\ firstReq' = IF firstReq = None THEN b ELSE firstReq
    /\ lastReq' = b

SendInitialToken(token) == reqToken' = InitialToken

\* json={"banNo": ban_no, "verifySHidden": VERIFY_S_HIDDEN}: the request
\* carries the value the global has when session.post is called
SendToken(token) == reqToken' = token

\* vhs is not None and str(vhs) != VERIFY_S_HIDDEN, for a response that gets
\* as far as the echo check
EchoDiffers(r, token) ==
    /\ r.status = "200" /\ r.body = "object" /\ r.result = "success"
    /\ r.echo # None /\ r.echo # token

\* fatal_stop_and_log up to its three saves; the log entry and sys.exit follow
FatalStop(b, reason) ==
    /\ fatalId' = b
    /\ fatalReason' = reason
    /\ fatalEntry' = fatalEntry
    /\ writeQ' = ThreeWrites(FatalCursor(b), hits, ok_map)
    /\ wphase' = 0
    /\ after' = "exit_fatal"
    /\ pc' = "saving"

\* the process is gone: its memory with it
ProcessGone ==
    /\ pc' = "idle"
    /\ start_int' = 0 /\ last_legal' = None /\ vat' = None /\ processed' = 0
    /\ tries' = 0 /\ did_refresh_vhs' = FALSE /\ VERIFY_S_HIDDEN' = InitialToken
    /\ hits' = {} /\ ok_map' = {} /\ row' = "none"
    /\ writeQ' = <<>> /\ wphase' = 0 /\ after' = "none"

\* --------------------------------------------------------------- actions
\* main() up to the for loop: --start or load_state, then the map loads
StartRun(ov) ==
    /\ pc = "idle"
    /\ runsLeft > 0
    /\ runsLeft' = runsLeft - 1
    /\ start_int' = IF ov # None THEN ov ELSE load_state(disk)
    /\ hits' = load_json(disk, "hits")
    /\ ok_map' = load_json(disk, "ok")
    /\ disk' = AfterLoads(disk, ov)
    /\ errlog' = errlog \o CorruptEntries(disk, ov)
    /\ moved' = moved \cup MovedAside(disk, ov)
    /\ pc' = "pull"
    /\ last_legal' = None /\ vat' = None /\ processed' = 0
    /\ tries' = 0 /\ did_refresh_vhs' = FALSE /\ VERIFY_S_HIDDEN' = InitialToken
    /\ row' = "none"
    /\ outcome' = "running" /\ exit_status' = 0
    /\ override' = (ov # None)
    /\ runStart' = (IF ov # None THEN ov ELSE load_state(disk))
    /\ cursorAtStart' = disk.state
    /\ refreshMisuse' = FALSE /\ failAfterRefresh' = FALSE
    /\ reqs' = {} /\ firstReq' = None /\ lastReq' = None /\ reqToken' = None
    /\ retryOf' = None /\ refreshCalls' = 0
    /\ fatalId' = None /\ fatalReason' = "none" /\ handlerRan' = FALSE
    /\ fatalEntry' = NoEntry
    /\ done' = {} /\ wantOk' = {} /\ wantHits' = {} /\ inflight' = None
    /\ anomalyAt' = None /\ echoDiff' = FALSE
    /\ prevOutcome' = outcome /\ prevStart' = runStart
    /\ prevDone' = done /\ prevFatalId' = fatalId
    /\ UNCHANGED <<auxVars, storeVars, envVars, tmp, saveVars>>


\* for vat in gen, first next(): uniform_number_stream rejects a start that is
\* not 8 digits (ValueError); the generic handler of main catches it
PullError ==
    /\ pc = "pull"
    /\ last_legal = None
    /\ ~EightDigits(start_int)
    /\ handlerRan' = TRUE
    /\ writeQ' = ThreeWrites(HandlerCursor(last_legal, start_int), hits, ok_map)
    /\ wphase' = 0
    /\ after' = "exit_err"
    /\ pc' = "saving"
    /\ UNCHANGED <<auxVars, storeVars, envVars, runsLeft, fileVars, procVars, exitVars, reqVars,
                   runVars, refreshGhosts, retryOf, refreshCalls, fatalId, fatalReason, fatalEntry,
                   done, wantOk, wantHits, inflight, anomalyAt, echoDiff, prevVars>>

\* the value the generator yields next, None when it is exhausted
NextYield ==
    IF last_legal = None THEN uniform_number_stream(start_int)
    ELSE StreamNextExclusive(last_legal)

\* for vat in gen: the stream is exhausted, the else branch of main runs
PullExhausted ==
    /\ pc = "pull"
    /\ last_legal # None \/ EightDigits(start_int)
    /\ NextYield = None
    /\ writeQ' = ThreeWrites(CompletedCursor, hits, ok_map)
    /\ wphase' = 0
    /\ after' = "exit_done"
    /\ pc' = "saving"
    /\ UNCHANGED <<auxVars, storeVars, envVars, runsLeft, fileVars, procVars, exitVars, reqVars,
                   histVars, prevVars>>

\* for vat in gen: last_legal = vat, and the first session.post of the
\* polling client for vat
PullNext ==
    /\ pc = "pull"
    /\ last_legal # None \/ EightDigits(start_int)
    /\ NextYield # None
    /\ vat' = NextYield
    /\ last_legal' = NextYield
    /\ tries' = 0
    /\ did_refresh_vhs' = FALSE
    /\ refreshCalls' = 0
    /\ inflight' = NextYield
    /\ IssueRequest(NextYield)
    /\ SendToken(VERIFY_S_HIDDEN)
    /\ pc' = "post"
    /\ UNCHANGED <<auxVars, storeVars, envVars, runsLeft, fileVars, start_int, processed,
                   VERIFY_S_HIDDEN, hits, ok_map, row, saveVars, exitVars,
                   runVars, refreshGhosts, retryOf, fatalId, fatalReason, fatalEntry,
                   handlerRan, done, wantOk, wantHits, anomalyAt, echoDiff, prevVars>>

\* the anomalies of a response as the design lists them: a status other than
\* 200 and 429, an undecodable or non-object body, result != success with no
\* eligible refresh, a token echo that differs, a missing retrieveDataList
RefreshEligible(r) == r.web /\ ~did_refresh_vhs /\ refresh_available

Anomalous(r) ==
    /\ r.status \notin {"exc", "429"}
    /\ \/ r.status # "200"
       \/ r.body # "object"
       \/ r.result # "success" /\ ~RefreshEligible(r)
       \/ r.result = "success" /\ r.echo # None /\ r.echo # VERIFY_S_HIDDEN
       \/ r.result = "success" /\ ~r.list

\* a response (or RequestException) that goes straight to fatal_stop_and_log
RespondFatal(r) ==
    /\ pc = "post"
    /\ Classify(r, VERIFY_S_HIDDEN) \in FatalKinds
    /\ FatalStop(vat, Classify(r, VERIFY_S_HIDDEN))
    /\ anomalyAt' = IF Anomalous(r) THEN vat ELSE anomalyAt
    /\ echoDiff' = (echoDiff \/ EchoDiffers(r, VERIFY_S_HIDDEN))
    /\ retryOf' = None
    /\ UNCHANGED <<auxVars, storeVars, envVars, runsLeft, fileVars, procVars, exitVars, reqVars,
                   runVars, refreshGhosts, refreshCalls, handlerRan, done, wantOk,
                   wantHits, inflight, prevVars>>

\* HTTP 429: tries += 1, then time.sleep(wait_sec)
Respond429(r) ==
    /\ pc = "post"
    /\ Classify(r, VERIFY_S_HIDDEN) = "429"
    /\ tries < MaxTries
    /\ tries' = tries + 1
    /\ retryOf' = vat
    /\ pc' = "sleep429"
    /\ UNCHANGED <<auxVars, storeVars, envVars, runsLeft, fileVars, start_int, last_legal, vat,
                   processed, did_refresh_vhs, VERIFY_S_HIDDEN, hits, ok_map,
                   row, saveVars, exitVars, reqVars, runVars, refreshGhosts,
                   refreshCalls, fatalId, fatalReason, fatalEntry, handlerRan, done,
                   wantOk, wantHits, inflight, anomalyAt, echoDiff, prevVars>>

\* after the sleep the next request leaves for an identifier other than vat
After429Skipping ==
    /\ pc = "sleep429"
    /\ pc' = "pull"
    /\ UNCHANGED <<auxVars, storeVars, envVars, runsLeft, fileVars, procVars, saveVars, exitVars,
                   reqVars, histVars, prevVars>>

\* after the sleep: the ceiling check, then `continue` posts vat again
After429 ==
    /\ pc = "sleep429"
    /\ IF CeilingReached(tries, max_429_retries)
       THEN /\ FatalStop(vat, "Too many 429 retries")
            /\ UNCHANGED reqVars
       ELSE /\ IssueRequest(vat)
            /\ SendToken(VERIFY_S_HIDDEN)
            /\ pc' = "post"
            /\ UNCHANGED <<saveVars, fatalId, fatalReason, fatalEntry>>
    /\ UNCHANGED <<auxVars, storeVars, envVars, runsLeft, fileVars, procVars, exitVars, runVars, refreshGhosts, retryOf, refreshCalls, handlerRan, done, wantOk,
                   wantHits, inflight, anomalyAt, echoDiff, prevVars>>

\* result != success: one refresh of the token when the message asks for the
\* web site, none was done in this call and get_verify_s_hidden exists;
\* fatal stop otherwise, and also when the refresh yields nothing new
RespondFailure(r, nv) ==
    /\ pc = "post"
    /\ Classify(r, VERIFY_S_HIDDEN) = "result != success"
    /\ retryOf' = None
    /\ failAfterRefresh' = (failAfterRefresh \/ refreshCalls > 0)
    /\ IF (~did_refresh_vhs) /\ r.web /\ refresh_available
       THEN /\ refreshCalls' = refreshCalls + 1
            /\ refreshMisuse' = (refreshMisuse \/ ~r.web \/ ~refresh_available)
            /\ IF nv >= 0 /\ nv # VERIFY_S_HIDDEN
               THEN /\ VERIFY_S_HIDDEN' = nv
                    /\ did_refresh_vhs' = DidRefreshAfterRefresh(did_refresh_vhs)
                    /\ IssueRequest(vat)
                    /\ SendToken(nv)
                    /\ UNCHANGED <<pc, saveVars, fatalId, fatalReason, fatalEntry, anomalyAt, echoDiff>>
               ELSE /\ FatalStop(vat, "result != success")
                    /\ anomalyAt' = IF Anomalous(r) THEN vat ELSE anomalyAt
                    /\ echoDiff' = (echoDiff \/ EchoDiffers(r, VERIFY_S_HIDDEN))
                    /\ UNCHANGED <<VERIFY_S_HIDDEN, did_refresh_vhs, reqVars>>
       ELSE /\ nv = None
            /\ FatalStop(vat, "result != success")
            /\ anomalyAt' = IF Anomalous(r) THEN vat ELSE anomalyAt
            /\ echoDiff' = (echoDiff \/ EchoDiffers(r, VERIFY_S_HIDDEN))
            /\ UNCHANGED <<VERIFY_S_HIDDEN, did_refresh_vhs, reqVars,
                           refreshCalls, refreshMisuse>>
    /\ UNCHANGED <<auxVars, storeVars, envVars, runsLeft, fileVars, start_int, last_legal, vat,
                   processed, tries, hits, ok_map, row, exitVars, runVars,
                   handlerRan, done, wantOk, wantHits, inflight, prevVars>>

\* the call returns data; main picks the row of --year
RespondPayload(r) ==
    /\ pc = "post"
    /\ Classify(r, VERIFY_S_HIDDEN) = "payload"
    /\ row' = r.row
    /\ retryOf' = None
    /\ anomalyAt' = IF Anomalous(r) THEN vat ELSE anomalyAt
    /\ echoDiff' = (echoDiff \/ EchoDiffers(r, VERIFY_S_HIDDEN))
    /\ pc' = "upsert_ok"
    /\ UNCHANGED <<auxVars, storeVars, envVars, runsLeft, fileVars, start_int, last_legal, vat,
                   processed, tries, did_refresh_vhs, VERIFY_S_HIDDEN, hits,
                   ok_map, saveVars, exitVars, reqVars, runVars, refreshGhosts,
                   refreshCalls, fatalId, fatalReason, fatalEntry, handlerRan, done,
                   wantOk, wantHits, inflight, prevVars>>

UpsertOkUnsaved ==
    /\ pc = "upsert_ok"
    /\ ok_map' = IF row # "none" /\ row_is_normal(row)
                 THEN ok_map \cup {vat} ELSE ok_map
    /\ pc' = "upsert_hits"
    /\ UNCHANGED <<auxVars, storeVars, envVars, runsLeft, fileVars, start_int, last_legal, vat,
                   processed, tries, did_refresh_vhs, VERIFY_S_HIDDEN, hits,
                   row, saveVars, exitVars, reqVars, histVars, prevVars>>

\* if row_is_normal(row): upsert into ok_map, save_json(OK_PATH, ok_map)
UpsertOk ==
    /\ pc = "upsert_ok"
    /\ IF row # "none" /\ row_is_normal(row)
       THEN /\ ok_map' = ok_map \cup {vat}
            /\ writeQ' = << [file |-> "ok", val |-> ok_map \cup {vat}] >>
            /\ wphase' = 0
            /\ after' = "upsert_hits"
            /\ pc' = "saving"
       ELSE /\ pc' = "upsert_hits"
            /\ UNCHANGED <<ok_map, saveVars>>
    /\ UNCHANGED <<auxVars, storeVars, envVars, runsLeft, fileVars, start_int, last_legal, vat,
                   processed, tries, did_refresh_vhs, VERIFY_S_HIDDEN, hits,
                   row, exitVars, reqVars, histVars, prevVars>>

\* if is_A_to_K(import) or is_A_to_K(export): upsert into hits, save_json(HITS_PATH, hits)
UpsertHits ==
    /\ pc = "upsert_hits"
    /\ IF row # "none" /\ RowFlagged(row)
       THEN /\ hits' = hits \cup {vat}
            /\ writeQ' = << [file |-> "hits", val |-> hits \cup {vat}] >>
            /\ wphase' = 0
            /\ after' = "account"
            /\ pc' = "saving"
       ELSE /\ pc' = "account"
            /\ UNCHANGED <<hits, saveVars>>
    /\ UNCHANGED <<auxVars, storeVars, envVars, runsLeft, fileVars, start_int, last_legal, vat,
                   processed, tries, did_refresh_vhs, VERIFY_S_HIDDEN, ok_map,
                   row, exitVars, reqVars, histVars, prevVars>>

\* processed += 1 and, every checkpoint_every identifiers, the checkpoint
Account ==
    /\ pc = "account"
    /\ processed' = processed + 1
    /\ done' = done \cup {vat}
    /\ wantOk' = IF row \in {"normal_flagged", "normal"} THEN wantOk \cup {vat} ELSE wantOk
    /\ wantHits' = IF row \in {"normal_flagged", "flagged"} THEN wantHits \cup {vat} ELSE wantHits
    /\ inflight' = None
    /\ row' = "none"
    /\ IF (processed + 1) % checkpoint_every = 0
       THEN /\ writeQ' = ThreeWrites(CheckpointCursor(vat), hits, ok_map)
            /\ wphase' = 0
            /\ after' = "pull"
            /\ pc' = "saving"
       ELSE /\ pc' = "pull"
            /\ UNCHANGED saveVars
    /\ UNCHANGED <<auxVars, storeVars, envVars, runsLeft, fileVars, start_int, last_legal, vat,
                   tries, did_refresh_vhs, VERIFY_S_HIDDEN, hits, ok_map,
                   exitVars, reqVars, runVars, refreshGhosts, retryOf, refreshCalls,
                   fatalId, fatalReason, fatalEntry, handlerRan, anomalyAt, echoDiff, prevVars>>


\* an exception other than KeyboardInterrupt and SystemExit while the payload
\* is processed (pick_year_row on a retrieveDataList that is no list, a save
\* that raises OSError): except Exception of main
UnexpectedError ==
    /\ pc \in {"upsert_ok", "upsert_hits"}
    /\ handlerRan' = TRUE
    /\ inflight' = None
    /\ writeQ' = ThreeWrites(HandlerCursor(last_legal, start_int), hits, ok_map)
    /\ wphase' = 0
    /\ after' = "exit_err"
    /\ pc' = "saving"
    /\ UNCHANGED <<auxVars, storeVars, envVars, runsLeft, fileVars, procVars, exitVars,
                   reqVars, runVars, refreshGhosts, retryOf, refreshCalls,
                   fatalId, fatalReason, fatalEntry, done, wantOk, wantHits, anomalyAt, echoDiff,
                   prevVars>>

\* ------------------------------------------- persistence.py: the two saves
\* save_state / save_json: the payload equals what the file holds
SameContent(w) == disk[w.file].st = "whole" /\ disk[w.file].val = w.val

\* path.write_text(payload): the target itself is truncated, then filled
DirectWrite ==
    LET w == Head(writeQ)
    IN  IF wphase = 0
        THEN /\ disk' = [disk EXCEPT ![w.file] = Torn(w.file)]
             /\ wphase' = 1
             /\ UNCHANGED <<tmp, writeQ>>
        ELSE /\ disk' = [disk EXCEPT ![w.file] = Whole(w.val)]
             /\ wphase' = 0
             /\ writeQ' = Tail(writeQ)
             /\ UNCHANGED tmp

\* _atomic_write_text in three steps: the .tmp file is opened and partly
\* written; it is complete, flushed and fsynced; os.replace(tmp, path)
AtomicWrite ==
    LET w == Head(writeQ)
    IN  CASE wphase = 0 ->
               /\ tmp' = [tmp EXCEPT ![w.file] = Torn(w.file)]
               /\ wphase' = 1
               /\ UNCHANGED <<disk, writeQ>>
          [] wphase = 1 ->
               /\ tmp' = [tmp EXCEPT ![w.file] = Whole(w.val)]
               /\ wphase' = 2
               /\ UNCHANGED <<disk, writeQ>>
          [] OTHER ->
               /\ disk' = [disk EXCEPT ![w.file] = tmp[w.file]]
               /\ tmp' = [tmp EXCEPT ![w.file] = Absent(w.file)]
               /\ wphase' = 0
               /\ writeQ' = Tail(writeQ)

\* unchanged content: the save returns without writing
SaveSkip ==
    /\ pc = "saving"
    /\ writeQ # <<>>
    /\ wphase = 0
    /\ SameContent(Head(writeQ))
    /\ writeQ' = Tail(writeQ)
    /\ UNCHANGED <<auxVars, storeVars, envVars, runsLeft, fileVars, pc, procVars, wphase, after,
                   exitVars, reqVars, histVars, prevVars>>

\* changed content: one step of the write
SaveStep ==
    /\ pc = "saving"
    /\ writeQ # <<>>
    /\ wphase # 0 \/ ~SameContent(Head(writeQ))
    /\ AtomicWrite
    /\ UNCHANGED <<auxVars, storeVars, envVars, runsLeft, errlog, moved, pc, procVars, after, exitVars,
                   reqVars, histVars, prevVars>>

\* the saves of an upsert or of a checkpoint are through: the loop goes on
SaveReturn ==
    /\ pc = "saving"
    /\ writeQ = <<>>
    /\ after \in {"upsert_hits", "account", "pull"}
    /\ pc' = after
    /\ after' = "none"
    /\ UNCHANGED <<auxVars, storeVars, envVars, runsLeft, fileVars, procVars, writeQ, wphase,
                   exitVars, reqVars, histVars, prevVars>>

\* fatal_stop_and_log after its saves: append_error_log and sys.exit(1); the
\* SystemExit passes `except SystemExit: raise`
ExitFatal ==
    /\ pc = "saving"
    /\ writeQ = <<>>
    /\ after = "exit_fatal"
    /\ errlog' = Append(errlog, "Fatal stop")
    /\ fatalEntry' = FatalDetails(fatalId, fatalReason)
    /\ IF SystemExitPropagates
       THEN /\ ProcessGone
            /\ outcome' = "FATAL"
            /\ exit_status' = 1
            /\ inflight' = None
            /\ UNCHANGED handlerRan
       ELSE /\ handlerRan' = TRUE
            /\ writeQ' = ThreeWrites(HandlerCursor(last_legal, start_int), hits, ok_map)
            /\ wphase' = 0
            /\ after' = "exit_err"
            /\ UNCHANGED <<pc, procVars, exitVars, inflight>>
    /\ UNCHANGED <<auxVars, storeVars, envVars, runsLeft, disk, tmp, moved, reqVars, runVars, refreshGhosts,
                   retryOf, refreshCalls, fatalId, fatalReason, done, wantOk,
                   wantHits, anomalyAt, echoDiff, prevVars>>

\* except KeyboardInterrupt, after its saves: the message, then main returns
ExitInterrupted ==
    /\ pc = "saving"
    /\ writeQ = <<>>
    /\ after = "exit_int"
    /\ ProcessGone
    /\ outcome' = "INTERRUPTED"
    /\ exit_status' = 0
    /\ UNCHANGED <<auxVars, storeVars, envVars, runsLeft, fileVars, reqVars, histVars, prevVars>>

\* the generic handler without its append_error_log
ExitErrorSilent ==
    /\ pc = "saving"
    /\ writeQ = <<>>
    /\ after = "exit_err"
    /\ ProcessGone
    /\ outcome' = "ERROR"
    /\ exit_status' = 1
    /\ UNCHANGED <<auxVars, storeVars, envVars, runsLeft, fileVars, reqVars, histVars,
                   prevVars>>

\* except Exception, after its saves: append_error_log and sys.exit(1)
ExitError ==
    /\ pc = "saving"
    /\ writeQ = <<>>
    /\ after = "exit_err"
    /\ errlog' = Append(errlog, "Unhandled exception")
    /\ ProcessGone
    /\ outcome' = "ERROR"
    /\ exit_status' = 1
    /\ UNCHANGED <<auxVars, storeVars, envVars, runsLeft, disk, tmp, moved, reqVars, histVars, prevVars>>

\* the else branch after its saves: the scan is complete
ExitCompleted ==
    /\ pc = "saving"
    /\ writeQ = <<>>
    /\ after = "exit_done"
    /\ ProcessGone
    /\ outcome' = "COMPLETED"
    /\ exit_status' = 0
    /\ UNCHANGED <<auxVars, storeVars, envVars, runsLeft, fileVars, reqVars, histVars, prevVars>>

\* KeyboardInterrupt while the process waits for the response, sleeps after a
\* 429 or is between two identifiers: except KeyboardInterrupt of main
Interrupt ==
    /\ pc \in {"pull", "post", "sleep429"}
    /\ handlerRan' = TRUE
    /\ inflight' = None
    /\ retryOf' = None
    /\ writeQ' = ThreeWrites(HandlerCursor(last_legal, start_int), hits, ok_map)
    /\ wphase' = 0
    /\ after' = "exit_int"
    /\ pc' = "saving"
    /\ UNCHANGED <<auxVars, storeVars, envVars, runsLeft, fileVars, procVars, exitVars, reqVars,
                   runVars, refreshGhosts, refreshCalls, fatalId, fatalReason, fatalEntry, done,
                   wantOk, wantHits, anomalyAt, echoDiff, prevVars>>

\* the process is killed: nothing more is written.  A .tmp file it leaves
\* behind is never read (the next write of that file truncates it), so it is
\* dropped here
Kill ==
    /\ pc # "idle"
    /\ ProcessGone
    /\ outcome' = "KILLED"
    /\ exit_status' = 137
    /\ tmp' = [f \in Files |-> Absent(f)]
    /\ UNCHANGED <<auxVars, storeVars, envVars, runsLeft, disk, errlog, moved, reqVars, histVars, prevVars>>

\* the --start values tried
StartOverrides == {0, UpperBound + 1}

Next ==
    \/ \E ov \in {None} \cup StartOverrides : StartRun(ov)
    \/ PullError
    \/ PullExhausted
    \/ PullNext
    \/ \E r \in Responses : RespondFatal(r)
    \/ \E r \in Responses : Respond429(r)
    \/ After429
    \/ \E r \in Responses, nv \in RefreshResults : RespondFailure(r, nv)
    \/ \E r \in Responses : RespondPayload(r)
    \/ UpsertOk
    \/ UpsertHits
    \/ Account
    \/ UnexpectedError
    \/ SaveSkip
    \/ SaveStep
    \/ SaveReturn
    \/ ExitFatal
    \/ ExitInterrupted
    \/ ExitError
    \/ ExitCompleted
    \/ Interrupt
    \/ Kill

Spec == Init /\ [][Next]_vars

SpecPoll == InitPoll /\ [][Next]_vars

\* what a file can hold when a run starts: nothing, bytes that do not parse,
\* or a version an earlier run wrote
FileStates(f) ==
    {Absent(f), Torn(f), Whole(IF f = "state" THEN UpperBound ELSE {0})}

\* one run under the command line of Init, on files in every such state
InitFiles ==
    /\ NoProcess
    /\ disk \in {[state |-> a, hits |-> b, ok |-> c] :
                    a \in FileStates("state"), b \in FileStates("hits"),
                    c \in FileStates("ok")}
    /\ StoreIdle /\ BACKUP_KEEP = DefaultKeep /\ BACKUP_ENABLED = TRUE
    /\ VatIdle /\ GenIdle /\ RowIdle /\ WaitIdle
    /\ max_429_retries = 0
    /\ checkpoint_every = 2
    /\ refresh_available = FALSE
    /\ runsLeft = 1
    /\ ExtIdle

SpecFiles == InitFiles /\ [][Next]_vars

\* ------------------------------------- persistence.py on one target path
\* save_state and save_json share one body: the payload is compared with the
\* target, the target is copied to <name>.bak.<ts>, the backups are pruned,
\* and the payload goes to <name>.tmp, which replaces the target.  A file is
\* [st, val, mtime]; mtime counts the writes (finer than the second of the
\* backup's name), and copy2 keeps it.
Contents == 0..MaxContent

PayloadNeverOnDisk(p, v) == FALSE
\* path.exists() and path.read_text() == payload
PayloadOnDisk(p, v) == p.st = "whole" /\ p.val = v

\* shutil.copy2(path, <name>.bak.<ts>): content and mtime of the target; a
\* file of that name is overwritten
CopyBackup(bs, p, ts) ==
    {b \in bs : b.ts # ts} \cup {[ts |-> ts, val |-> p.val, mtime |-> p.mtime]}

\* _prune_backups: S is what is left of bs, the keep newest by mtime (the
\* order among equal mtimes is the order glob happens to give)
KeptAfterPrune(S, bs, keep) ==
    IF keep < 0 THEN S = bs
    ELSE /\ S \subseteq bs
         /\ Cardinality(S) = (IF Cardinality(bs) < keep THEN Cardinality(bs) ELSE keep)
         /\ \A a \in S, b \in bs \ S : a.mtime >= b.mtime

\* one call of save_state / save_json up to the comparison
SaveCall(v) ==
    /\ spc = "idle"
    /\ calls < MaxSaves
    /\ calls' = calls + 1
    /\ payload' = v
    /\ prior' = target
    /\ IF PayloadOnDisk(target, v)
       THEN spc' = "idle" /\ lastCall' = "noop"
       ELSE spc' = "backup" /\ lastCall' = "writing"
    /\ UNCHANGED <<auxVars, mainVars, BACKUP_KEEP, BACKUP_ENABLED, target, backups,
                   tmpfile, now, mclock, versions, aborted>>

\* _backup_if_exists up to the copy
Copy2 ==
    /\ spc = "backup"
    /\ IF BACKUP_ENABLED /\ target.st # "absent"
       THEN /\ backups' = CopyBackup(backups, target, now)
            /\ spc' = "prune"
       ELSE /\ spc' = "write"
            /\ UNCHANGED backups
    /\ UNCHANGED <<auxVars, mainVars, BACKUP_KEEP, BACKUP_ENABLED, target, tmpfile, now,
                   mclock, payload, prior, versions, calls, lastCall, aborted>>

\* finally: _prune_backups(path)
PruneBackups ==
    /\ spc = "prune"
    /\ \E S \in SUBSET backups :
          /\ KeptAfterPrune(S, backups, BACKUP_KEEP)
          /\ backups' = S
    /\ spc' = "write"
    /\ UNCHANGED <<auxVars, mainVars, BACKUP_KEEP, BACKUP_ENABLED, target, tmpfile, now,
                   mclock, payload, prior, versions, calls, lastCall, aborted>>

\* path.open("w") and f.write on the target itself
OpenTargetWrite ==
    /\ spc = "write"
    /\ target' = [st |-> "torn", val |-> payload, mtime |-> mclock]
    /\ spc' = "flush"
    /\ UNCHANGED <<auxVars, mainVars, BACKUP_KEEP, BACKUP_ENABLED, tmpfile, backups, now,
                   mclock, payload, prior, versions, calls, lastCall, aborted>>

\* _atomic_write_text: tmp.open("w") and f.write(text), not yet on disk whole
OpenTmpWrite ==
    /\ spc = "write"
    /\ tmpfile' = [st |-> "torn", val |-> payload, mtime |-> mclock]
    /\ spc' = "flush"
    /\ UNCHANGED <<auxVars, mainVars, BACKUP_KEEP, BACKUP_ENABLED, target, backups, now,
                   mclock, payload, prior, versions, calls, lastCall, aborted>>

\* f.flush(), os.fsync(f.fileno()) and the close: the .tmp file is whole
FlushFsync ==
    /\ spc = "flush"
    /\ mclock' = mclock + 1
    /\ tmpfile' = [st |-> "whole", val |-> payload, mtime |-> mclock + 1]
    /\ spc' = "replace"
    /\ UNCHANGED <<auxVars, mainVars, BACKUP_KEEP, BACKUP_ENABLED, target, backups, now,
                   payload, prior, versions, calls, lastCall, aborted>>

\* os.replace(tmp, path), and the save returns
OsReplace ==
    /\ spc = "replace"
    /\ target' = tmpfile
    /\ tmpfile' = NoFile
    /\ versions' = IF target.st = "absent" THEN versions ELSE Append(versions, target)
    /\ spc' = "idle"
    /\ lastCall' = "written"
    /\ UNCHANGED <<auxVars, mainVars, BACKUP_KEEP, BACKUP_ENABLED, backups, now, mclock,
                   payload, prior, calls, aborted>>

\* datetime.now() reaches the next second
Tick ==
    /\ now < MaxClock
    /\ now' = now + 1
    /\ UNCHANGED <<auxVars, mainVars, BACKUP_KEEP, BACKUP_ENABLED, target, backups,
                   tmpfile, mclock, spc, payload, prior, versions, calls,
                   lastCall, aborted>>

\* the process dies inside a save; what is on disk stays
StoreCrash ==
    /\ spc # "idle"
    /\ spc' = "idle"
    /\ lastCall' = "crashed"
    /\ aborted' = TRUE
    /\ UNCHANGED <<auxVars, mainVars, BACKUP_KEEP, BACKUP_ENABLED, target, backups,
                   tmpfile, now, mclock, payload, prior, versions, calls>>

\* the saves of one installation, under every backup setting
InitStore ==
    /\ Fresh
    /\ max_429_retries = 0 /\ checkpoint_every = 2 /\ refresh_available = FALSE
    /\ runsLeft = 0
    /\ StoreIdle
    /\ VatIdle /\ GenIdle /\ RowIdle /\ WaitIdle
    /\ BACKUP_KEEP \in (0 - 1)..MaxKeep
    /\ BACKUP_ENABLED \in BOOLEAN
    /\ ExtIdle

NextStore ==
    \/ \E v \in Contents : SaveCall(v)
    \/ Copy2
    \/ PruneBackups
    \/ OpenTmpWrite
    \/ FlushFsync
    \/ OsReplace
    \/ Tick
    \/ StoreCrash

SpecStore == InitStore /\ [][NextStore]_vars


\* --------------------------------------------- vat.py on 8-character strings
\* vat.py:51 -- the largest identifier
TopId == 99999999

DigitChars == <<"0", "1", "2", "3", "4", "5", "6", "7", "8", "9">>

\* characters outside ASCII that str.isdigit() accepts: a full-width seven,
\* which int() reads as 7, and a superscript two, which int() rejects
FullWidthSeven == "full-width 7"
SuperscriptTwo == "superscript 2"

\* int(ch) succeeds
HasIntValue(c) ==
    \/ \E d \in 1..Len(DigitChars) : DigitChars[d] = c
    \/ c = FullWidthSeven

\* ch.isdigit()
IsDigit(c) == HasIntValue(c) \/ c = SuperscriptTwo

\* int(ch)
DigitValue(c) ==
    IF c = FullWidthSeven THEN 7
    ELSE (CHOOSE d \in 1..Len(DigitChars) : DigitChars[d] = c) - 1

\* len(uniform_number) != 8 or not uniform_number.isdigit(), or int(ch)
\* raising ValueError for one of the characters
RaisesValueError(s) ==
    \/ Len(s) # Len(WEIGHTS)
    \/ \E i \in 1..Len(s) : ~IsDigit(s[i])
    \/ \E i \in 1..Len(s) : ~HasIntValue(s[i])

\* z_total of explain_uniform_number on the string: the sum of the first i
\* per-digit sums
RECURSIVE z_total(_, _)
z_total(s, i) ==
    IF i = 0 THEN 0
    ELSE sum_digits(DigitValue(s[i]) * WEIGHTS[i]) + z_total(s, i - 1)

ValidIgnoringSeventhDigit(s) ==
    IF RaisesValueError(s) THEN "ValueError"
    ELSE IF z_total(s, Len(s)) % 5 = 0 THEN "True" ELSE "False"

\* is_valid_uniform_number on the string: ValueError, True or False
ValidOrError(s) ==
    IF RaisesValueError(s) THEN "ValueError"
    ELSE LET z == z_total(s, Len(s))
         IN  IF z % 5 = 0 THEN "True"
             ELSE IF s[7] = "7" /\ (z + 1) % 5 = 0 THEN "True"
             ELSE "False"

\* the digits the checked strings are made of, and strings that are not
\* eight ASCII digits
CheckChars == {"0", "5", "7", "9"}

Malformed ==
    {<<>>, <<"0", "0", "0", "0", "0", "0", "0">>,
     <<"0", "0", "0", "0", "0", "0", "0", "0", "0">>,
     <<"0", "0", "0", "0", "0", "0", "7", "x">>,
     <<"x", "0", "0", "0", "0", "0", "0", "0">>,
     <<"0", "0", "0", " ", "0", "0", "0", "0">>,
     <<"0", "0", "0", "0", "0", "0", FullWidthSeven, "9">>,
     <<"0", "0", "0", "0", "0", "0", FullWidthSeven, "0">>,
     <<"0", "0", "0", "0", "0", "0", "7", SuperscriptTwo>>}

\* one call is_valid_uniform_number(uniform_number)
CallIsValid ==
    /\ vpc = "call"
    /\ vresult' = ValidOrError(uniform_number)
    /\ vpc' = "returned"
    /\ UNCHANGED <<mainVars, storeVars, extVars, uniform_number, genVars, rowVars,
                   waitVars>>

InitVat ==
    /\ Fresh
    /\ max_429_retries = 0 /\ checkpoint_every = 2 /\ refresh_available = FALSE
    /\ runsLeft = 0
    /\ StoreIdle /\ BACKUP_KEEP = DefaultKeep /\ BACKUP_ENABLED = TRUE
    /\ GenIdle /\ RowIdle /\ WaitIdle
    /\ uniform_number \in [1..Len(WEIGHTS) -> CheckChars] \cup Malformed
    /\ vresult = "none" /\ vpc = "call"
    /\ ExtIdle

NextVat == CallIsValid

SpecVat == InitVat /\ [][NextVat]_vars

\* len(start) == 8 and start.isdigit() for start = f"{n:08d}"
EightDigitStart(n) == n >= 0 /\ n <= TopId

\* next(gen) for the first time: the format check, then n = int(start)
GenStart ==
    /\ gpc = "created"
    /\ IF EightDigitStart(gstart)
       THEN gn' = gstart /\ gpc' = "loop"
       ELSE gn' = gn /\ gpc' = "ValueError"
    /\ UNCHANGED <<mainVars, storeVars, extVars, vatVars, gstart, yielded, rowVars,
                   waitVars>>

GenStepNoIncrementAfterYield ==
    /\ gpc = "loop"
    /\ IF gn <= TopId
       THEN /\ yielded' = IF is_valid_uniform_number(gn)
                          THEN Append(yielded, gn) ELSE yielded
            /\ gn' = gn + (IF is_valid_uniform_number(gn) THEN 2 ELSE 1)
            /\ UNCHANGED gpc
       ELSE /\ gpc' = "exhausted"
            /\ UNCHANGED <<gn, yielded>>
    /\ UNCHANGED <<mainVars, storeVars, extVars, vatVars, gstart, rowVars, waitVars>>

\* one turn of while n <= 99_999_999: yield s if it is valid, n += 1; the
\* generator returns when the condition fails
GenStep ==
    /\ gpc = "loop"
    /\ IF gn <= TopId
       THEN /\ yielded' = IF is_valid_uniform_number(gn)
                          THEN Append(yielded, gn) ELSE yielded
            /\ gn' = gn + 1
            /\ UNCHANGED gpc
       ELSE /\ gpc' = "exhausted"
            /\ UNCHANGED <<gn, yielded>>
    /\ UNCHANGED <<mainVars, storeVars, extVars, vatVars, gstart, rowVars, waitVars>>

\* uniform_number_stream(f"{gstart:08d}") for the starts near the upper bound
InitStream ==
    /\ Fresh
    /\ max_429_retries = 0 /\ checkpoint_every = 2 /\ refresh_available = FALSE
    /\ runsLeft = 0
    /\ StoreIdle /\ BACKUP_KEEP = DefaultKeep /\ BACKUP_ENABLED = TRUE
    /\ VatIdle /\ RowIdle /\ WaitIdle
    /\ gstart \in (TopId - StreamSpan)..(TopId + 1)
    /\ gn = 0 /\ yielded = <<>> /\ gpc = "created"
    /\ ExtIdle

NextStream == GenStart \/ GenStep

\* the consumer (for vat in gen) keeps pulling
SpecStream == InitStream /\ [][NextStream]_vars /\ WF_vars(NextStream)


\* ------------------------------------ parsing_utils.py on the field values
\* A JSON value of a row is null, a string or a number; s holds the
\* characters of a string, and of str(x) for a number.  An entry of
\* retrieveDataList is a list of values, or something that is no list.
Null == [t |-> "null", s |-> <<>>]
StrVal(chars) == [t |-> "str", s |-> chars]
NumVal(chars) == [t |-> "num", s |-> chars]
ListEntry(fields) == [list |-> TRUE, f |-> fields]
NotAList == [list |-> FALSE, f |-> <<"object">>]

\* str(x)
Str(x) == IF x.t = "null" THEN <<"N", "o", "n", "e">> ELSE x.s

\* s.strip()
RECURSIVE Strip(_)
Strip(s) ==
    IF s = <<>> THEN s
    ELSE IF Head(s) = " " THEN Strip(Tail(s))
    ELSE IF s[Len(s)] = " " THEN Strip(SubSeq(s, 1, Len(s) - 1))
    ELSE s

\* the characters of the grade fields, in code-point order
CodePoints == <<" ", "1", "@", "A", "K", "L", "a", "k", "l">>
Ord(c) == CHOOSE i \in 1..Len(CodePoints) : CodePoints[i] = c

\* c.upper() of one character
UpperChar(c) ==
    IF c = "a" THEN "A" ELSE IF c = "k" THEN "K" ELSE IF c = "l" THEN "L"
    ELSE c

\* s.upper()
Upper(s) == [i \in 1..Len(s) |-> UpperChar(s[i])]

\* s.startswith(prefix)
StartsWith(s, prefix) ==
    Len(prefix) <= Len(s) /\ SubSeq(s, 1, Len(prefix)) = prefix

\* entry[k], k counted from 0 as in the source
Field(entry, k) == entry.f[k + 1]

\* pick_year_row from the i-th entry of items on: the first list of at
\* least 7 fields whose index 6 equals the year or whose index 1 starts
\* with it
RECURSIVE PickFrom(_, _, _)
PickFrom(its, year, i) ==
    IF i > Len(its) THEN NoRow
    ELSE LET entry == its[i]
         IN  IF ~entry.list \/ Len(entry.f) < 7 THEN PickFrom(its, year, i + 1)
             ELSE IF Strip(Str(Field(entry, 6))) = year THEN entry
             ELSE IF StartsWith(Strip(Str(Field(entry, 1))), year) THEN entry
             ELSE PickFrom(its, year, i + 1)

PickYearRow(its, year) == PickFrom(its, year, 1)

IsAToKNoUpper(value) ==
    /\ value.t = "str" /\ value.s # <<>>
    /\ LET v == Strip(value.s)
       IN  Len(v) = 1 /\ Ord("A") <= Ord(v[1]) /\ Ord(v[1]) <= Ord("K")

\* is_A_to_K: a non-empty str whose strip().upper() is one character
\* between "A" and "K"
IsAToK(value) ==
    /\ value.t = "str" /\ value.s # <<>>
    /\ LET v == Upper(Strip(value.s))
       IN  Len(v) = 1 /\ Ord("A") <= Ord(v[1]) /\ Ord(v[1]) <= Ord("K")

RowIsNormalNoNameCheck(entry) ==
    /\ Len(entry.f) >= 7
    /\ \A k \in 0..6 : Field(entry, k).t # "null"

\* row_is_normal: at least 7 fields, none of the first seven None, and
\* str(entry[2]).strip() not empty
RowIsNormal(entry) ==
    /\ Len(entry.f) >= 7
    /\ \A k \in 0..6 : Field(entry, k).t # "null"
    /\ Strip(Str(Field(entry, 2))) # <<>>

\* the picked row as the orchestrator classifies it (runner.py main)
RowKind(entry) ==
    IF entry = NoRow THEN "none"
    ELSE LET normal  == RowIsNormal(entry)
             flagged == IsAToK(Field(entry, 4)) \/ IsAToK(Field(entry, 5))
         IN  IF normal /\ flagged THEN "normal_flagged"
             ELSE IF normal THEN "normal"
             ELSE IF flagged THEN "flagged"
             ELSE "plain"

\* row = pick_year_row(data, str(args.year)); if row: ...
RowPick ==
    /\ rpc = "data"
    /\ picked' = PickYearRow(items, target_year)
    /\ kind' = RowKind(picked')
    /\ rpc' = IF picked' = NoRow THEN "done" ELSE "row"
    /\ UNCHANGED <<mainVars, storeVars, extVars, vatVars, genVars, waitVars, items,
                   target_year, row_ok, row_hit>>

\* if row_is_normal(row): upsert_nested(ok_map, vat, year, ...)
RowAccept ==
    /\ rpc = "row"
    /\ row_ok' = (row_ok \/ RowIsNormal(picked))
    /\ rpc' = "accepted"
    /\ UNCHANGED <<mainVars, storeVars, extVars, vatVars, genVars, waitVars, items,
                   target_year, picked, kind, row_hit>>

\* if is_A_to_K(import_grade) or is_A_to_K(export_grade):
\* upsert_nested(hits, vat, year, ...)
RowFlag ==
    /\ rpc = "accepted"
    /\ row_hit' = (row_hit \/ IsAToK(Field(picked, 4))
                           \/ IsAToK(Field(picked, 5)))
    /\ rpc' = "done"
    /\ UNCHANGED <<mainVars, storeVars, extVars, vatVars, genVars, waitVars, items,
                   target_year, picked, kind, row_ok>>

\* str(args.year): --year is an int
Years == {<<"1", "1", "3">>, <<"1", "1">>}

\* values of the name field, of a grade field, of index 1 and of index 6
NameValues ==
    {Null, StrVal(<<>>), StrVal(<<" ">>), StrVal(<<" ", "A">>), NumVal(<<"1">>)}
GradeValues ==
    {Null, StrVal(<<>>), StrVal(<<"A">>), StrVal(<<" ", "k", " ">>),
     StrVal(<<"L">>), StrVal(<<"l">>), StrVal(<<"A", "K">>), StrVal(<<"@">>),
     NumVal(<<"1">>)}
PrefixValues == {StrVal(<<" ", "1", "1", "3", "0">>), StrVal(<<"0">>), Null}
PeriodValues ==
    {StrVal(<<"1", "1", "3">>), StrVal(<<"1", "1", "3", " ">>),
     NumVal(<<"1", "1", "3">>), StrVal(<<"1", "1", "2">>), Null}

\* retrieveDataList with one entry: every combination of the fields, an
\* entry of 6 and one of 8 fields, an entry that is no list, and no entry
OneEntryLists ==
    {<<ListEntry(<<f0, f1, nm, StrVal(<<"A">>), im, ex, pe>>)>> :
        f0 \in {Null, StrVal(<<"1">>)}, f1 \in PrefixValues,
        nm \in NameValues, im \in GradeValues, ex \in GradeValues,
        pe \in PeriodValues}
    \cup
    {<<ListEntry(<<StrVal(<<"1">>), StrVal(<<"0">>), StrVal(<<"A">>), f3,
                  StrVal(<<"A">>), Null, StrVal(<<"1", "1", "3">>)>>)>> :
        f3 \in {Null, StrVal(<<>>)}}
    \cup
    {<<ListEntry(<<StrVal(<<"1">>), StrVal(<<"1", "1", "3">>), StrVal(<<"A">>),
                  StrVal(<<"A">>), StrVal(<<"A">>), StrVal(<<"A">>)>>)>>,
     <<ListEntry(<<StrVal(<<"1">>), StrVal(<<"0">>), StrVal(<<"A">>),
                  StrVal(<<"A">>), StrVal(<<"A">>), StrVal(<<"L">>),
                  StrVal(<<"1", "1", "3">>), Null>>)>>,
     <<NotAList>>, <<>>}

\* an entry of a longer retrieveDataList: the name tells the entries apart
SlimEntry(nm, f1, pe) ==
    ListEntry(<<StrVal(<<"1">>), f1, StrVal(nm), StrVal(<<"A">>),
                StrVal(<<"A">>), StrVal(<<"L">>), pe>>)

TwoEntryLists ==
    {<<e1, e2>> :
        e1 \in {SlimEntry(<<"A">>, f1, pe) :
                    f1 \in PrefixValues, pe \in PeriodValues}
               \cup {NotAList},
        e2 \in {SlimEntry(<<"K">>, f1, pe) :
                    f1 \in PrefixValues, pe \in PeriodValues}}

\* one payload of one identifier, not yet in either map
InitRows ==
    /\ Fresh
    /\ max_429_retries = 0 /\ checkpoint_every = 2 /\ refresh_available = FALSE
    /\ runsLeft = 0
    /\ StoreIdle /\ BACKUP_KEEP = DefaultKeep /\ BACKUP_ENABLED = TRUE
    /\ VatIdle /\ GenIdle /\ WaitIdle
    /\ items \in OneEntryLists \cup TwoEntryLists
    /\ target_year \in Years
    /\ picked = NoRow /\ kind = "none"
    /\ row_ok = FALSE /\ row_hit = FALSE
    /\ rpc = "data"
    /\ ExtIdle

NextRows == RowPick \/ RowAccept \/ RowFlag

SpecRows == InitRows /\ [][NextRows]_vars


\* ------------------------------------- the 429 waits of one polling call
\* api_client.py:104 -- the cap of the exponential backoff, in seconds
WaitCap == 300
\* api_client.py:102 -- the base used when cooldown_on_warn is 0
DefaultBase == 2

Max(a, b) == IF a >= b THEN a ELSE b
Min(a, b) == IF a <= b THEN a ELSE b

\* the Retry-After header after strip(): none or empty, a number of
\* seconds v, an HTTP date lying v seconds after time.time(), or text that
\* is neither
NoHeader == [kind |-> "none", v |-> 0]
RetryAfterHeaders ==
    {NoHeader, [kind |-> "garbage", v |-> 0]}
    \cup {[kind |-> "number", v |-> x] : x \in {0 - 5, 0, 7, 2 * WaitCap}}
    \cup {[kind |-> "date", v |-> x] : x \in {0 - 5, 7, 2 * WaitCap}}

\* --cooldown-on-warn values, in seconds
BackoffBases == {0, 1, DefaultBase, WaitCap \div 3, WaitCap + 100}

ComputeWaitWithoutCap(t, cooldown, h) ==
    IF h.kind \in {"number", "date"} THEN Max(0, h.v)
    ELSE LET base == IF cooldown = 0 THEN DefaultBase ELSE cooldown
         IN  base * (2 ^ Max(0, t - 1))

\* _compute_429_wait_seconds(tries, cooldown_on_warn, ra_hdr)
compute_429_wait_seconds(t, cooldown, h) ==
    IF h.kind \in {"number", "date"} THEN Max(0, h.v)
    ELSE LET base     == IF cooldown = 0 THEN DefaultBase ELSE cooldown
             exp_wait == base * (2 ^ Max(0, t - 1))
         IN  Min(exp_wait, WaitCap)

\* a 429 arrives: tries += 1, the wait is computed from the header of this
\* response, time.sleep(wait_sec) begins
WaitGot429(h) ==
    /\ wpc = "post"
    /\ tries429 < MaxWaitTries
    /\ tries429' = tries429 + 1
    /\ consec429' = consec429 + 1
    /\ ra_hdr' = h
    /\ wait_sec' = compute_429_wait_seconds(tries429 + 1, cooldown_on_warn, h)
    /\ wpc' = "sleep"
    /\ UNCHANGED <<mainVars, storeVars, extVars, vatVars, genVars, rowVars,
                   cooldown_on_warn, refreshed>>

\* the sleep is over: fatal stop at the ceiling, else `continue`
WaitSlept ==
    /\ wpc = "sleep"
    /\ wpc' = IF CeilingReached(tries429, max_429_retries)
              THEN "fatal" ELSE "post"
    /\ UNCHANGED <<mainVars, storeVars, extVars, vatVars, genVars, rowVars,
                   cooldown_on_warn, tries429, consec429, ra_hdr, wait_sec,
                   refreshed>>

\* a 200 answer asks for the web site and the token is refreshed: `continue`
\* with tries as it is
WaitRefreshed ==
    /\ wpc = "post"
    /\ ~refreshed
    /\ refreshed' = TRUE
    /\ consec429' = 0
    /\ UNCHANGED <<mainVars, storeVars, extVars, vatVars, genVars, rowVars,
                   cooldown_on_warn, tries429, ra_hdr, wait_sec, wpc>>

\* any other answer ends the call: the payload is returned or the stop is
\* fatal
WaitCallEnds ==
    /\ wpc = "post"
    /\ wpc' = "ended"
    /\ UNCHANGED <<mainVars, storeVars, extVars, vatVars, genVars, rowVars,
                   cooldown_on_warn, tries429, consec429, ra_hdr, wait_sec,
                   refreshed>>

\* post_company_with_429_retry is entered: tries = 0, did_refresh_vhs = False
InitWait ==
    /\ Fresh
    /\ max_429_retries \in {None, MaxWaitTries - 1}
    /\ checkpoint_every = 2 /\ refresh_available = TRUE
    /\ runsLeft = 0
    /\ StoreIdle /\ BACKUP_KEEP = DefaultKeep /\ BACKUP_ENABLED = TRUE
    /\ VatIdle /\ GenIdle /\ RowIdle
    /\ cooldown_on_warn \in BackoffBases
    /\ tries429 = 0 /\ consec429 = 0
    /\ ra_hdr = NoHeader /\ wait_sec = 0
    /\ wpc = "post" /\ refreshed = FALSE
    /\ ExtIdle

NextWait ==
    \/ \E h \in RetryAfterHeaders : WaitGot429(h)
    \/ WaitSlept
    \/ WaitRefreshed
    \/ WaitCallEnds

SpecWait == InitWait /\ [][NextWait]_vars

\* the same call under every --max-429-retries, -1 (no ceiling) included
InitCall ==
    /\ Fresh
    /\ max_429_retries \in (0 - 1)..MaxCeiling
    /\ checkpoint_every = 2 /\ refresh_available = TRUE
    /\ runsLeft = 0
    /\ StoreIdle /\ BACKUP_KEEP = DefaultKeep /\ BACKUP_ENABLED = TRUE
    /\ VatIdle /\ GenIdle /\ RowIdle
    /\ cooldown_on_warn \in BackoffBases
    /\ tries429 = 0 /\ consec429 = 0
    /\ ra_hdr = NoHeader /\ wait_sec = 0
    /\ wpc = "post" /\ refreshed = FALSE
    /\ ExtIdle

\* the process keeps running: every request is answered (the server sends
\* at most MaxWaitTries 429 answers) and every sleep ends
SpecCall == InitCall /\ [][NextWait]_vars /\ WF_vars(NextWait)


\* ============================================ src/runner.py: standalone
\* The single-file runner has its own polling client, fatal stop and file
\* writes.  One call of post_company_with_429_retry for solo_ban, followed
\* by fatal_stop_and_log when the call stops fatally.

\* path.write_text has opened the file: it is truncated
SoloEmpty(f) == [st |-> "empty", val |-> IF f = "state" THEN 0 ELSE {}]

\* fatal_stop_and_log: next_number = int(ban_no), then save_state,
\* save_json(hits), save_json(ok)
SoloFatal(reason) ==
    /\ solo_reason' = reason
    /\ solo_wq' = ThreeWrites(FatalCursor(solo_ban), solo_hits, solo_ok)
    /\ solo_pc' = "saving"

\* HTTP 429: tries += 1, then time.sleep(wait_sec)
SoloGot429 ==
    /\ solo_pc = "post"
    /\ solo_tries < MaxTries
    /\ solo_tries' = solo_tries + 1
    /\ solo_pc' = "sleep"
    /\ UNCHANGED <<soloFrame, envVars, solo_ban, solo_token, solo_did_refresh,
                   solo_refreshes, solo_reason, solo_hits, solo_ok, solo_disk,
                   solo_before, solo_wq, solo_open>>

\* after the sleep: fatal stop at the ceiling, else `continue`
SoloSlept ==
    /\ solo_pc = "sleep"
    /\ IF CeilingReached(solo_tries, max_429_retries)
       THEN SoloFatal("Too many 429 retries")
       ELSE solo_pc' = "post" /\ UNCHANGED <<solo_reason, solo_wq>>
    /\ UNCHANGED <<soloFrame, envVars, solo_ban, solo_token, solo_did_refresh,
                   solo_tries, solo_refreshes, solo_hits, solo_ok, solo_disk,
                   solo_before, solo_open>>

\* the refresh branch is entered: (not did_refresh_vhs) and the errmsg asks
\* for the web site and get_verify_s_hidden is not None
SoloRefreshTried(r) == ~solo_did_refresh /\ r.web /\ refresh_available

\* isinstance(new_vhs, str) and new_vhs and new_vhs != VERIFY_S_HIDDEN
SoloRefreshTaken(nv) == nv \in 0..MaxToken /\ nv # solo_token

\* data.get("result") != "success": the token is refreshed and the identifier
\* retried (`continue`; did_refresh_vhs is not assigned), or the stop is fatal
SoloNotSuccess(r, nv) ==
    /\ solo_pc = "post"
    /\ Classify(r, solo_token) = "result != success"
    /\ IF SoloRefreshTried(r) /\ SoloRefreshTaken(nv)
       THEN /\ solo_refreshes < MaxRefreshes
            /\ solo_token' = nv
            /\ solo_refreshes' = solo_refreshes + 1
            /\ UNCHANGED <<solo_pc, solo_reason, solo_wq>>
       ELSE /\ SoloFatal("result != success")
            /\ UNCHANGED <<solo_token, solo_refreshes>>
    /\ UNCHANGED <<soloFrame, envVars, solo_ban, solo_did_refresh, solo_tries,
                   solo_hits, solo_ok, solo_disk, solo_before, solo_open>>

\* every other answer: the payload is returned, or the stop is fatal
SoloRespond(r) ==
    /\ solo_pc = "post"
    /\ Classify(r, solo_token) \notin {"429", "result != success"}
    /\ IF Classify(r, solo_token) = "payload"
       THEN solo_pc' = "returned" /\ UNCHANGED <<solo_reason, solo_wq>>
       ELSE SoloFatal(Classify(r, solo_token))
    /\ UNCHANGED <<soloFrame, envVars, solo_ban, solo_token, solo_did_refresh,
                   solo_tries, solo_refreshes, solo_hits, solo_ok, solo_disk,
                   solo_before, solo_open>>

\* path.write_text, first half: open(path, "w") truncates the file
SoloWriteOpen ==
    /\ solo_pc = "saving"
    /\ solo_open = "none"
    /\ solo_wq # <<>>
    /\ solo_open' = Head(solo_wq).file
    /\ solo_disk' = [solo_disk EXCEPT ![Head(solo_wq).file] =
                         SoloEmpty(Head(solo_wq).file)]
    /\ UNCHANGED <<soloFrame, envVars, solo_ban, solo_token, solo_did_refresh,
                   solo_tries, solo_refreshes, solo_pc, solo_reason, solo_hits,
                   solo_ok, solo_before, solo_wq>>

\* path.write_text, second half: the text is written and the file closed
SoloWriteClose ==
    /\ solo_pc = "saving"
    /\ solo_open # "none"
    /\ solo_disk' = [solo_disk EXCEPT ![solo_open] = Whole(Head(solo_wq).val)]
    /\ solo_wq' = Tail(solo_wq)
    /\ solo_open' = "none"
    /\ UNCHANGED <<soloFrame, envVars, solo_ban, solo_token, solo_did_refresh,
                   solo_tries, solo_refreshes, solo_pc, solo_reason, solo_hits,
                   solo_ok, solo_before>>

\* append_error_log("Fatal stop", details), then sys.exit(1)
SoloExit ==
    /\ solo_pc = "saving"
    /\ solo_open = "none"
    /\ solo_wq = <<>>
    /\ solo_pc' = "exited"
    /\ UNCHANGED <<soloFrame, envVars, solo_ban, solo_token, solo_did_refresh,
                   solo_tries, solo_refreshes, solo_reason, solo_hits, solo_ok,
                   solo_disk, solo_before, solo_wq, solo_open>>

\* the process is killed; a file open for writing keeps what reached the
\* disk: nothing, or a prefix of the text
SoloKill ==
    /\ solo_pc \in {"post", "sleep", "saving"}
    /\ solo_pc' = "killed"
    /\ IF solo_open = "none" THEN UNCHANGED solo_disk
       ELSE \E left \in {SoloEmpty(solo_open), Torn(solo_open)} :
                solo_disk' = [solo_disk EXCEPT ![solo_open] = left]
    /\ UNCHANGED <<soloFrame, envVars, solo_ban, solo_token, solo_did_refresh,
                   solo_tries, solo_refreshes, solo_reason, solo_hits, solo_ok,
                   solo_before, solo_wq, solo_open>>

\* post_company_with_429_retry is entered for solo_ban: did_refresh_vhs =
\* False, tries = 0; the files hold what the run has saved so far
InitSolo ==
    /\ Fresh
    /\ StoreIdle /\ BACKUP_KEEP = DefaultKeep /\ BACKUP_ENABLED = TRUE
    /\ VatIdle /\ GenIdle /\ RowIdle /\ WaitIdle
    /\ max_429_retries \in (0 - 1)..MaxCeiling
    /\ checkpoint_every = 2
    /\ refresh_available \in BOOLEAN
    /\ runsLeft = 0
    /\ solo_ban \in ValidIds
    /\ solo_token = InitialToken /\ solo_did_refresh = FALSE
    /\ solo_tries = 0 /\ solo_refreshes = 0
    /\ solo_pc = "post" /\ solo_reason = "none"
    /\ solo_hits \in SUBSET {m \in ValidIds : m < solo_ban}
    /\ solo_ok \in SUBSET {m \in ValidIds : m < solo_ban}
    /\ \E c \in {0, solo_ban} :
           solo_disk = [f \in Files |->
                           IF f = "state" THEN Whole(c)
                           ELSE IF f = "hits" THEN Whole(solo_hits)
                           ELSE Whole(solo_ok)]
    /\ solo_before = solo_disk
    /\ solo_wq = <<>> /\ solo_open = "none"
    /\ LoadIdle /\ CoIdle

NextSolo ==
    \/ SoloGot429
    \/ SoloSlept
    \/ \E r \in Responses, nv \in RefreshResults : SoloNotSuccess(r, nv)
    \/ \E r \in Responses : SoloRespond(r)
    \/ SoloWriteOpen
    \/ SoloWriteClose
    \/ SoloExit
    \/ SoloKill

SpecSolo == InitSolo /\ [][NextSolo]_vars


\* ========================================= persistence.py: load_json
\* One map file as its text parses: absent, unparsable, or a JSON document
\* with a root of some kind.  An object root holds the identifiers that are
\* its keys; an array holds nothing or one element; a number is 0..MaxContent;
\* a string is empty or an identifier.

RootFiles ==
    {[kind |-> "absent", val |-> {}], [kind |-> "unparsable", val |-> {}],
     [kind |-> "null", val |-> {}]}
    \cup {[kind |-> "object", val |-> d] : d \in SUBSET ValidIds}
    \cup {[kind |-> "array", val |-> d] : d \in {{}, {0}}}
    \cup {[kind |-> "number", val |-> {n}] : n \in 0..MaxContent}
    \cup {[kind |-> "string", val |-> d] : d \in {{}, {0}}}

\* the Python type json.loads gives each kind of root
JsonType(root) ==
    CASE root = "object" -> "dict"
      [] root = "array"  -> "list"
      [] root = "number" -> "int"
      [] root = "string" -> "str"
      [] root = "null"   -> "NoneType"

\* json.loads(path.read_text()): the value of the document
JsonLoads(file) == [type |-> JsonType(file.kind), val |-> file.val]

EmptyDict == [type |-> "dict", val |-> {}]

\* _safe_load_json: return json.loads(...); except Exception: ... return {}
SafeLoadJson(file) ==
    IF file.kind = "unparsable" THEN EmptyDict ELSE JsonLoads(file)

\* load_json(path): {} when the path does not exist, else _safe_load_json;
\* an unparsable file is renamed to .corrupt.<ts> and the move is logged
LoadJson ==
    /\ jpc = "start"
    /\ jresult' = IF jfile.kind = "absent" THEN EmptyDict
                  ELSE SafeLoadJson(jfile)
    /\ jfile' = IF jfile.kind = "unparsable"
                THEN [kind |-> "absent", val |-> {}] ELSE jfile
    /\ jlog' = IF jfile.kind = "unparsable"
               THEN Append(jlog, "Corrupt data JSON moved") ELSE jlog
    /\ jpc' = "loaded"
    /\ UNCHANGED <<loadFrame, jpath>>

\* upsert_nested(d, ban, year, payload) of main(): `ban not in d`, d[ban] =
\* {}, d[ban][year] = payload; on a value that is no dict one of the three
\* raises TypeError, which main's generic handler catches
UpsertNested(b) ==
    /\ jpc \in {"loaded", "saved"}
    /\ IF jresult.type = "dict"
       THEN /\ jresult' = [jresult EXCEPT !.val = @ \cup {b}]
            /\ jpc' = "upserted"
       ELSE /\ jpc' = "TypeError"
            /\ UNCHANGED jresult
    /\ UNCHANGED <<loadFrame, jpath, jfile, jlog>>

\* save_json(path, d) after the upsert
SaveUpserted ==
    /\ jpc = "upserted"
    /\ jfile' = [kind |-> "object", val |-> jresult.val]
    /\ jpc' = "saved"
    /\ UNCHANGED <<loadFrame, jpath, jresult, jlog>>

\* main() is about to load hits.json, ok.json or company_details.json
InitLoad ==
    /\ Fresh
    /\ StoreIdle /\ BACKUP_KEEP = DefaultKeep /\ BACKUP_ENABLED = TRUE
    /\ VatIdle /\ GenIdle /\ RowIdle /\ WaitIdle
    /\ max_429_retries = None /\ checkpoint_every = 2
    /\ refresh_available = FALSE /\ runsLeft = 0
    /\ SoloIdle
    /\ jpath \in {"hits", "ok", "company_details"}
    /\ jfile \in RootFiles
    /\ jresult = [type |-> "none", val |-> {}]
    /\ jlog = <<>>
    /\ jpc = "start"
    /\ CoIdle

NextLoad ==
    \/ LoadJson
    \/ \E b \in ValidIds : UpsertNested(b)
    \/ SaveUpserted

SpecLoad == InitLoad /\ [][NextLoad]_vars


\* ================================== company_details.json and its callers
\* build_and_save (fbfh_trade/company/builder.py), the startup
\* reconciliation of scripts/runner.py main and run_checks of
\* scripts/check_and_run.py.  A map file is absent, unparsable or whole; a
\* whole file gives each (banNo, year) of BuildPairs a value: "absent" (no
\* such key), "dict" or "other" (a value that is no dict) in hits.json,
\* "old" (a value present before the call) or "new" (a value build_and_save
\* has filled in) in company_details.json.

BuildPairs == {<<0, 113>>, <<5, 113>>, <<5, 114>>}

NoPairs == [p \in BuildPairs |-> "absent"]

MapAbsent     == [st |-> "absent", val |-> NoPairs]
MapUnparsable == [st |-> "unparsable", val |-> NoPairs]
MapWhole(m)   == [st |-> "whole", val |-> m]

\* the sort key (banNo, year) of missing_pairs.sort
PairKey(p) == p[1] * 1000 + p[2]

RECURSIVE SortedPairs(_)
SortedPairs(S) ==
    IF S = {} THEN <<>>
    ELSE LET first == CHOOSE p \in S : \A q \in S : PairKey(p) <= PairKey(q)
         IN  <<first>> \o SortedPairs(S \ {first})

DiffIgnoringExisting(h, e) == SortedPairs({p \in BuildPairs : h[p] = "dict"})

\* _diff_hits_vs_existing: the years of hits whose value is a dict and that
\* are no key of existing[ban], sorted by (banNo, year)
DiffHitsVsExisting(h, e) ==
    SortedPairs({p \in BuildPairs : h[p] = "dict" /\ e[p] = "absent"})

\* _pair_count: sum(len(v) for v in d.values() if isinstance(v, dict)), the
\* number of (banNo, year) keys whatever their values
PairCount(m) == Cardinality({p \in BuildPairs : m[p] # "absent"})

\* _load_existing_output of the builder and _load_json of check_and_run:
\* {} when the file is absent or does not parse
LoadOrEmpty(file) == IF file.st = "whole" THEN file.val ELSE NoPairs

\* build_and_save up to the test `if not missing_pairs`: _load_hits_strict
\* raises when hits.json is absent or does not parse
BuildLoad ==
    /\ bpc = "call"
    /\ at_call' = details_json
    /\ fetched' = <<>> /\ bwrites' = 0 /\ token_reqs' = 0
    /\ IF hits_json.st # "whole"
       THEN /\ bpc' = "raised"
            /\ UNCHANGED <<existing, missing_pairs>>
       ELSE /\ existing' = LoadOrEmpty(details_json)
            /\ missing_pairs' =
                   DiffHitsVsExisting(hits_json.val, LoadOrEmpty(details_json))
            /\ bpc' = IF DiffHitsVsExisting(hits_json.val,
                                            LoadOrEmpty(details_json)) = <<>>
                      THEN "returned" ELSE "token"
    /\ UNCHANGED <<buildFrame, hits_json, details_json, xlsx_rows, det_cnt,
                   hits_cnt, qpc, cpc, prev>>

\* token = _get_verify_token(timeout): one request, which may raise
BuildToken(ok) ==
    /\ bpc = "token"
    /\ token_reqs' = token_reqs + 1
    /\ bpc' = IF ok THEN "loop" ELSE "raised"
    /\ UNCHANGED <<buildFrame, hits_json, details_json, xlsx_rows, existing,
                   missing_pairs, fetched, bwrites, at_call, det_cnt,
                   hits_cnt, qpc, cpc, prev>>

\* one pass of `for ban_no, year in missing_pairs`: the fetch gives a row
\* (existing[ban_no][year] = enriched, _save_json) or None (continue), or
\* the token refresh inside it raises
BuildFetch(result) ==
    /\ bpc = "loop"
    /\ missing_pairs # <<>>
    /\ fetched' = Append(fetched, Head(missing_pairs))
    /\ missing_pairs' = Tail(missing_pairs)
    /\ CASE result = "row" ->
              /\ existing' = [existing EXCEPT ![Head(missing_pairs)] = "new"]
              /\ details_json' =
                    MapWhole([existing EXCEPT ![Head(missing_pairs)] = "new"])
              /\ bwrites' = bwrites + 1
              /\ UNCHANGED bpc
         [] result = "None" ->
              UNCHANGED <<existing, details_json, bwrites, bpc>>
         [] result = "raise" ->
              /\ bpc' = "raised"
              /\ UNCHANGED <<existing, details_json, bwrites>>
    /\ UNCHANGED <<buildFrame, hits_json, xlsx_rows, token_reqs, at_call,
                   det_cnt, hits_cnt, qpc, cpc, prev>>

\* the for loop is over: return existing
BuildReturn ==
    /\ bpc = "loop"
    /\ missing_pairs = <<>>
    /\ bpc' = "returned"
    /\ UNCHANGED <<buildFrame, hits_json, details_json, xlsx_rows, existing,
                   missing_pairs, fetched, bwrites, token_reqs, at_call,
                   det_cnt, hits_cnt, qpc, cpc, prev>>

FetchResults == {"row", "None", "raise"}

BuildSteps ==
    \/ BuildLoad
    \/ \E ok \in BOOLEAN : BuildToken(ok)
    \/ \E result \in FetchResults : BuildFetch(result)
    \/ BuildReturn

\* load_json of persistence.py on a map file: an unparsable file is moved
\* aside
AfterLoadJson(file) == IF file.st = "unparsable" THEN MapAbsent ELSE file

\* the data rows export_excel can leave in company_details.xlsx: one per
\* year entry and one per identifier whose value is no dict, less the rows
\* that failed to write
ExportRows == 0..Cardinality(BuildPairs)

\* export_excel(): the sheet is rewritten with rows data rows; rows = None
\* when it ends the process (sys.exit(2) on an unreadable input, sys.exit(3)
\* on a failed write)
ExportOutcomes(file) ==
    IF file.st # "whole" THEN {None}
    ELSE {None} \cup ExportRows

\* ---------------------------------- scripts/runner.py: reconciliation
\* hits = load_json(HITS_PATH), details = load_json(COMPANY_DETAILS_PATH)
ReconLoad ==
    /\ qpc = "load"
    /\ hits_cnt' = PairCount(LoadOrEmpty(hits_json))
    /\ det_cnt' = PairCount(LoadOrEmpty(details_json))
    /\ hits_json' = AfterLoadJson(hits_json)
    /\ details_json' = AfterLoadJson(details_json)
    /\ qpc' = "test"
    /\ UNCHANGED <<buildFrame, xlsx_rows, existing, missing_pairs, bpc,
                   fetched, bwrites, token_reqs, at_call, cpc, prev>>

\* while _pair_count(details) != _pair_count(hits): build_and_save(...)
ReconTest ==
    /\ qpc = "test"
    /\ IF det_cnt # hits_cnt
       THEN qpc' = "build" /\ bpc' = "call"
       ELSE qpc' = "scan" /\ UNCHANGED bpc
    /\ UNCHANGED <<buildFrame, hits_json, details_json, xlsx_rows, existing,
                   missing_pairs, fetched, bwrites, token_reqs, at_call,
                   det_cnt, hits_cnt, cpc, prev>>

\* build_and_save is over: export_excel() comes next, or except Exception:
\* break
ReconBuilt ==
    /\ qpc = "build"
    /\ bpc \in {"returned", "raised"}
    /\ qpc' = IF bpc = "returned" THEN "export" ELSE "scan"
    /\ bpc' = "idle"
    /\ UNCHANGED <<buildFrame, hits_json, details_json, xlsx_rows, existing,
                   missing_pairs, fetched, bwrites, token_reqs, at_call,
                   det_cnt, hits_cnt, cpc, prev>>

\* export_excel(), then details = load_json(COMPANY_DETAILS_PATH); the
\* SystemExit of the exporter passes `except Exception`
ReconExport(rows) ==
    /\ qpc = "export"
    /\ rows \in ExportOutcomes(details_json)
    /\ IF rows = None
       THEN /\ qpc' = "exit"
            /\ UNCHANGED <<xlsx_rows, det_cnt, details_json>>
       ELSE /\ xlsx_rows' = rows
            /\ det_cnt' = PairCount(LoadOrEmpty(details_json))
            /\ details_json' = AfterLoadJson(details_json)
            /\ qpc' = "test"
    /\ UNCHANGED <<buildFrame, hits_json, existing, missing_pairs, bpc,
                   fetched, bwrites, token_reqs, at_call, hits_cnt, cpc, prev>>

\* ---------------------------------- scripts/check_and_run.py: run_checks
AdvancedOrEqual(new_cnt, old_cnt) == new_cnt >= old_cnt
\* `if new_cnt <= prev: sys.exit(1)`, else `continue`
Advanced(new_cnt, old_cnt) == new_cnt > old_cnt

\* step 1 of the loop body: the counts of company_details.json and of the
\* sheet are compared
ChecksTop ==
    /\ cpc = "top"
    /\ IF PairCount(LoadOrEmpty(details_json)) > xlsx_rows
       THEN prev' = xlsx_rows /\ cpc' = "export"
       ELSE /\ UNCHANGED prev
            /\ cpc' = IF xlsx_rows > PairCount(LoadOrEmpty(details_json))
                      THEN "confirm_xlsx" ELSE "step2"
    /\ UNCHANGED <<buildFrame, hits_json, details_json, xlsx_rows, existing,
                   missing_pairs, bpc, fetched, bwrites, token_reqs, at_call,
                   det_cnt, hits_cnt, qpc>>

\* export_excel(), new_cnt = _count_excel_rows(...), then exit or continue
ChecksExport(rows) ==
    /\ cpc = "export"
    /\ rows \in ExportOutcomes(details_json)
    /\ IF rows = None
       THEN cpc' = "exit_export" /\ UNCHANGED xlsx_rows
       ELSE /\ xlsx_rows' = rows
            /\ cpc' = IF Advanced(rows, prev) THEN "top" ELSE "exit1"
    /\ UNCHANGED <<buildFrame, hits_json, details_json, existing,
                   missing_pairs, bpc, fetched, bwrites, token_reqs, at_call,
                   det_cnt, hits_cnt, qpc, prev>>

\* input("確認沒問題？(y/N): "): anything but y is sys.exit(1)
ChecksConfirm(yes) ==
    /\ cpc \in {"confirm_xlsx", "confirm_json"}
    /\ cpc' = IF ~yes THEN "exit1"
              ELSE IF cpc = "confirm_xlsx" THEN "step2" ELSE "done"
    /\ UNCHANGED <<buildFrame, hits_json, details_json, xlsx_rows, existing,
                   missing_pairs, bpc, fetched, bwrites, token_reqs, at_call,
                   det_cnt, hits_cnt, qpc, prev>>

\* step 2 of the loop body: the counts of hits.json and of
\* company_details.json are compared
ChecksStep2 ==
    /\ cpc = "step2"
    /\ IF PairCount(LoadOrEmpty(hits_json)) > PairCount(LoadOrEmpty(details_json))
       THEN /\ prev' = PairCount(LoadOrEmpty(details_json))
            /\ cpc' = "build" /\ bpc' = "call"
       ELSE /\ UNCHANGED <<prev, bpc>>
            /\ cpc' = IF PairCount(LoadOrEmpty(details_json))
                            > PairCount(LoadOrEmpty(hits_json))
                      THEN "confirm_json" ELSE "done"
    /\ UNCHANGED <<buildFrame, hits_json, details_json, xlsx_rows, existing,
                   missing_pairs, fetched, bwrites, token_reqs, at_call,
                   det_cnt, hits_cnt, qpc>>

\* build_and_save is over: new_cnt = _count_json_pairs(...), then exit or
\* continue; an exception of build_and_save ends the process
ChecksBuilt ==
    /\ cpc = "build"
    /\ bpc \in {"returned", "raised"}
    /\ cpc' = IF bpc = "raised" THEN "crashed"
              ELSE IF Advanced(PairCount(LoadOrEmpty(details_json)), prev)
                   THEN "top" ELSE "exit1"
    /\ bpc' = "idle"
    /\ UNCHANGED <<buildFrame, hits_json, details_json, xlsx_rows, existing,
                   missing_pairs, fetched, bwrites, token_reqs, at_call,
                   det_cnt, hits_cnt, qpc, prev>>

\* ------------------------------------------------------ the three inits
HitsFiles ==
    {MapAbsent, MapUnparsable}
    \cup {MapWhole(m) : m \in [BuildPairs -> {"absent", "dict", "other"}]}

DetailsFiles ==
    {MapAbsent, MapUnparsable}
    \cup {MapWhole(m) : m \in [BuildPairs -> {"absent", "old"}]}

\* everything but the two files and the sheet
CoStart ==
    /\ Fresh
    /\ StoreIdle /\ BACKUP_KEEP = DefaultKeep /\ BACKUP_ENABLED = TRUE
    /\ VatIdle /\ GenIdle /\ RowIdle /\ WaitIdle
    /\ max_429_retries = None /\ checkpoint_every = 2
    /\ refresh_available = FALSE /\ runsLeft = 0
    /\ SoloIdle /\ LoadIdle
    /\ hits_json \in HitsFiles
    /\ details_json \in DetailsFiles
    /\ existing = NoPairs /\ missing_pairs = <<>>
    /\ fetched = <<>> /\ bwrites = 0 /\ token_reqs = 0
    /\ at_call = MapAbsent
    /\ det_cnt = 0 /\ hits_cnt = 0 /\ prev = 0

\* one call of build_and_save
InitBuild ==
    /\ CoStart
    /\ xlsx_rows = 0
    /\ bpc = "call" /\ qpc = "idle" /\ cpc = "idle"

NextBuild == BuildSteps

SpecBuild == InitBuild /\ [][NextBuild]_vars

\* main() of scripts/runner.py before its loads; the process keeps running:
\* every request of build_and_save is answered
InitRecon ==
    /\ CoStart
    /\ xlsx_rows = 0
    /\ bpc = "idle" /\ qpc = "load" /\ cpc = "idle"

NextRecon ==
    \/ ReconLoad
    \/ ReconTest
    \/ BuildSteps
    \/ ReconBuilt
    \/ \E rows \in {None} \cup ExportRows : ReconExport(rows)

SpecRecon == InitRecon /\ [][NextRecon]_vars /\ WF_vars(NextRecon)

\* run_checks() is entered; the process keeps running: every request of
\* build_and_save is answered and the user answers every prompt
InitChecks ==
    /\ CoStart
    /\ xlsx_rows \in ExportRows
    /\ bpc = "idle" /\ qpc = "idle" /\ cpc = "top"

NextChecks ==
    \/ ChecksTop
    \/ \E rows \in {None} \cup ExportRows : ChecksExport(rows)
    \/ \E yes \in BOOLEAN : ChecksConfirm(yes)
    \/ ChecksStep2
    \/ BuildSteps
    \/ ChecksBuilt

SpecChecks == InitChecks /\ [][NextChecks]_vars /\ WF_vars(NextChecks)


\* ================================================================ claims
\* the cursor state.json holds (load_state's default when there is no file)
DiskCursor == IF disk.state.st = "whole" THEN disk.state.val ELSE 0

FatalPath == pc = "saving" /\ after = "exit_fatal"

\* C1: whenever the polling client escalates to a fatal stop on identifier X,
\* for whatever reason, state.json holds int(X) (not X + 1) when the process
\* exits, with status 1, and neither the interrupt handler nor the generic
\* handler of main has run.
C1_FatalStopPersistsFailingId ==
    (pc = "idle" /\ outcome = "FATAL") =>
        /\ fatalId = lastReq
        /\ disk.state = Whole(fatalId)
        /\ ~handlerRan
        /\ exit_status = 1

C1_Witness ==
    /\ pc = "idle" /\ outcome = "FATAL"
    /\ fatalReason = "Too many 429 retries"
    /\ fatalId = 5
    /\ disk.state = Whole(5)

\* C2: a run started without --start from a persisted cursor c requests no
\* identifier below c, its first request is for the smallest checksum-valid
\* identifier >= c, and after a fatal stop on X the first request is for X.
C2_ResumeStartsAtCursor ==
    (outcome # "none" /\ ~override /\ cursorAtStart.st = "whole") =>
        /\ \A b \in reqs : b >= cursorAtStart.val
        /\ firstReq # None =>
              /\ is_valid_uniform_number(firstReq)
              /\ firstReq >= cursorAtStart.val
              /\ \A m \in ValidIds : m >= cursorAtStart.val => m >= firstReq
        /\ (prevOutcome = "FATAL" /\ firstReq # None) => firstReq = prevFatalId

C2_Witness ==
    /\ ~override
    /\ prevOutcome = "FATAL" /\ prevFatalId = 5
    /\ cursorAtStart = Whole(5)
    /\ firstReq = 5

\* where the running scan stands: every identifier below is behind it
Position ==
    IF last_legal = None THEN start_int
    ELSE IF vat \in done THEN vat + 1 ELSE vat

\* C3: across a run ended by a user interrupt (delivered at any point, also
\* while a request is in flight or during a 429 sleep) and the run resumed
\* from the persisted cursor, every checksum-valid identifier between the
\* first run's start and the resumed run's position has had its response
\* received and classified in one of the two runs.
C3_NoIdentifierLostByInterrupt ==
    (prevOutcome = "INTERRUPTED" /\ ~override /\ outcome = "running") =>
        \A m \in ValidIds :
            (prevStart <= m /\ m < Position) => m \in prevDone \cup done

\* C4: across a run ended by a user interrupt and the run resumed from the
\* persisted cursor, no identifier whose response the first run processed
\* completely is requested again.
C4_NoDuplicateAfterInterrupt ==
    (prevOutcome = "INTERRUPTED" /\ ~override /\ outcome # "none") =>
        reqs \cap prevDone = {}

C4_Witness ==
    /\ prevOutcome = "INTERRUPTED" /\ ~override
    /\ prevDone = {0}
    /\ reqs = {5}

\* C5: after a 429 for identifier X the next request is again for X; no
\* request for another identifier leaves before X has a non-429 outcome or
\* the run ends.
C5_RetrySameIdentifierAfter429 ==
    retryOf # None => lastReq = retryOf

C5_Witness ==
    /\ retryOf = 5 /\ lastReq = 5
    /\ tries = 2
    /\ pc = "post"

\* C6: every anomalous response to X ends the run in FATAL: nothing is added
\* for X to the Accepted or Flagged map, in memory or on disk, and no later
\* identifier is requested in that run.
C6_AnomalyIsFatal ==
    anomalyAt # None =>
        /\ FatalPath \/ outcome \in {"FATAL", "KILLED"}
        /\ fatalId = anomalyAt
        /\ anomalyAt \notin (ok_map \cup hits \cup disk.ok.val \cup disk.hits.val)
        /\ anomalyAt \notin (wantOk \cup wantHits \cup done)
        /\ \A b \in reqs : b <= anomalyAt

C6_Witness ==
    /\ anomalyAt = 5
    /\ outcome = "FATAL"
    /\ fatalReason = "verifySHidden mismatch"
    /\ done = {0}

\* C7: in one call of the polling client the token refresh function is
\* invoked at most once, and only for the must-use-web message with a refresh
\* function available; a result != success after the refresh is a fatal stop.
C7_RefreshAtMostOncePerCall ==
    /\ refreshCalls <= 1
    /\ ~refreshMisuse
    /\ failAfterRefresh => (FatalPath \/ outcome \in {"FATAL", "KILLED"})

C7_Witness ==
    /\ refreshCalls = 1
    /\ failAfterRefresh
    /\ outcome = "FATAL"
    /\ fatalReason = "result != success"

\* C8: with a ceiling N >= 0 the identifier is requested again after each of
\* its first N 429 responses; the fatal stop for too many 429 retries comes
\* on the (N+1)-th 429 response only.
C8_FatalOnlyWhenCeilingExceeded ==
    (FatalPath /\ fatalReason = "Too many 429 retries") =>
        tries = max_429_retries + 1

\* C9: with the default ceiling (max_429_retries < 0) no number of 429
\* responses is a fatal stop or skips the identifier: it stays the one in
\* flight and the one requested.
C9_UnlimitedRetriesByDefault ==
    max_429_retries < 0 =>
        /\ fatalReason # "Too many 429 retries"
        /\ (retryOf # None /\ pc \notin {"idle", "saving"}) =>
              /\ pc \in {"sleep429", "post"}
              /\ vat = retryOf /\ inflight = retryOf /\ lastReq = retryOf

C9_Witness ==
    /\ max_429_retries < 0
    /\ tries = MaxTries
    /\ retryOf = 5
    /\ pc = "post"

\* the three files hold a complete version (or do not exist yet), and the
\* results of every completely processed identifier are in ok.json/hits.json
FilesComplete ==
    /\ \A f \in Files : disk[f].st \in {"absent", "whole"}
    /\ wantOk \subseteq disk.ok.val
    /\ wantHits \subseteq disk.hits.val

\* C10 as stated: at every point where the process can be killed the three
\* files are complete, hold the results of every completely processed
\* identifier, and the persisted cursor is <= the identifier in flight.
C10_KillSafeAnyRun ==
    /\ FilesComplete
    /\ inflight # None => DiskCursor <= inflight

\* C10, amended: the same for a run started without a start override.
C10_KillSafeResumedRun ==
    /\ FilesComplete
    /\ (inflight # None /\ ~override) => DiskCursor <= inflight

C10_Witness ==
    /\ outcome = "KILLED"
    /\ ~override
    /\ inflight = 5
    /\ done = {0} /\ wantOk = {0} /\ wantHits = {0}
    /\ DiskCursor = 0

\* C11: at every step of a save (the .tmp file opened and written, flushed and
\* fsynced, os.replace) and after a crash at any of them, the target holds
\* either the complete content it had when the save was called or the
\* complete new payload, never a partial content.
C11_TargetOldOrNew ==
    /\ target.st # "torn"
    /\ spc \in {"backup", "prune", "write", "flush", "replace"} => target = prior
    /\ calls > 0 => \/ target = prior
                    \/ target.st = "whole" /\ target.val = payload

C11_Witness ==
    /\ lastCall = "crashed"
    /\ tmpfile.st = "torn"
    /\ target = prior /\ target.st = "whole" /\ target.val # payload

\* C12: a save whose payload equals what the target holds changes nothing:
\* the target (content and mtime) is not rewritten, no backup is created and
\* none is pruned, no .tmp file is written, and the call returns.
C12_SameContentIsNoOp ==
    [][(spc = "idle" /\ calls' = calls + 1
            /\ target.st = "whole" /\ target.val = payload')
        => (target' = target /\ backups' = backups /\ tmpfile' = tmpfile
            /\ versions' = versions /\ spc' = "idle")]_vars

C12_Witness ==
    /\ lastCall = "noop" /\ spc = "idle"
    /\ BACKUP_ENABLED /\ backups # {}
    /\ target.st = "whole" /\ target.val = payload /\ target = prior

\* C13: a save whose payload differs from an existing target, with backups
\* enabled, adds exactly one backup file to those present, holding the
\* previous content, and the save ends with the target holding the payload;
\* also when two such saves get the same timestamp.
C13_OneNewBackupPerSave ==
    /\ [][(spc = "backup" /\ spc' = "prune" /\ ~aborted) =>
            /\ backups \subseteq backups'
            /\ Cardinality(backups') = Cardinality(backups) + 1
            /\ \A b \in backups' \ backups : b.val = target.val]_vars
    /\ []((spc = "idle" /\ lastCall = "written") =>
            (target.st = "whole" /\ target.val = payload))

\* the k most recent previous versions of the target
LatestVersions(k) ==
    {[val |-> versions[i].val, mtime |-> versions[i].mtime] :
        i \in {j \in 1..Len(versions) : j > Len(versions) - k}}

\* C14: after a completed save with backups enabled and retention K >= 0 at
\* most K backup files exist and they are the K most recent previous
\* versions; with K < 0 pruning removes nothing.
C14_BackupsAreLatestVersions ==
    /\ []((spc = "idle" /\ lastCall = "written" /\ BACKUP_ENABLED /\ ~aborted
             /\ BACKUP_KEEP >= 0) =>
            /\ Cardinality(backups) <= BACKUP_KEEP
            /\ {[val |-> b.val, mtime |-> b.mtime] : b \in backups}
                  = LatestVersions(BACKUP_KEEP))
    /\ [][(spc = "prune" /\ BACKUP_KEEP < 0) => backups' = backups]_vars

\* the files main() loads that do not parse, at the start of a run
CorruptAtStart ==
    {f \in (IF override' THEN {"hits", "ok"} ELSE Files) : disk[f].st = "torn"}

C16_CheckpointEveryN ==
    (pc = "pull" /\ processed > 0 /\ processed % checkpoint_every = 0) =>
        /\ disk.state = Whole(vat + 1)
        /\ disk.hits = Whole(hits)
        /\ disk.ok = Whole(ok_map)

C16_Witness ==
    /\ pc = "pull" /\ checkpoint_every = 2 /\ processed = 2
    /\ vat = 5 /\ disk.state = Whole(6)
    /\ ok_map = {0, 5} /\ disk.ok = Whole({0, 5})

C19_ExhaustionCompletes ==
    /\ (pc = "saving" /\ after = "exit_done" /\ writeQ = <<>>) =>
          /\ disk.hits = Whole(hits)
          /\ disk.ok = Whole(ok_map)
    /\ (pc = "idle" /\ outcome = "COMPLETED") =>
          /\ disk.state = Whole(UpperBound + 1)
          /\ disk.hits.st = "whole" /\ disk.ok.st = "whole"
          /\ \A m \in ValidIds : m >= runStart => m \in done
          /\ exit_status = 0
          /\ errlog = <<>>
          /\ ~handlerRan

C19_Witness ==
    /\ pc = "idle" /\ outcome = "COMPLETED"
    /\ done = ValidIds
    /\ disk.state = Whole(UpperBound + 1)
    /\ disk.ok = Whole(wantOk) /\ wantOk # {}

\* C20: in a run no identifier leaves the Accepted or the Flagged map, in
\* memory (from the loads on) or in ok.json / hits.json.
C20_MapsOnlyGrow ==
    [][/\ disk.hits.val \subseteq disk'.hits.val
       /\ disk.ok.val \subseteq disk'.ok.val
       /\ (pc = "idle" /\ pc' # "idle") =>
             (disk.hits.val \subseteq hits' /\ disk.ok.val \subseteq ok_map')
       /\ (pc # "idle" /\ pc' # "idle") =>
             (hits \subseteq hits' /\ ok_map \subseteq ok_map')]_vars

C20_Witness ==
    /\ prevDone = {0} /\ done = {5}
    /\ hits = {0, 5} /\ ok_map = {0, 5}
    /\ disk.hits = Whole({0, 5}) /\ disk.ok = Whole({0, 5})

\* C25: is_valid_uniform_number on an 8-digit string s is true exactly when
\* Z mod 5 = 0 or (s[6] = '7' and (Z+1) mod 5 = 0), Z being the sum of
\* fold(d_i * w_i) for w = [1,2,1,2,1,2,4,1], fold(p) = p below 10 and tens
\* digit + ones digit otherwise; '00000000' is valid; an input that is not
\* exactly 8 digits raises ValueError and returns no boolean.
C25_fold(p) == IF p < 10 THEN p ELSE (p \div 10) + (p % 10)

C25_Z(s) ==
    C25_fold(DigitValue(s[1]) * 1) + C25_fold(DigitValue(s[2]) * 2)
    + C25_fold(DigitValue(s[3]) * 1) + C25_fold(DigitValue(s[4]) * 2)
    + C25_fold(DigitValue(s[5]) * 1) + C25_fold(DigitValue(s[6]) * 2)
    + C25_fold(DigitValue(s[7]) * 4) + C25_fold(DigitValue(s[8]) * 1)

C25_EightDigits(s) == Len(s) = 8 /\ \A i \in 1..8 : HasIntValue(s[i])

C25_ChecksumFormula ==
    vpc = "returned" =>
        /\ C25_EightDigits(uniform_number) =>
              (vresult = "True" <=>
                  \/ C25_Z(uniform_number) % 5 = 0
                  \/ /\ uniform_number[7] = "7"
                     /\ (C25_Z(uniform_number) + 1) % 5 = 0)
        /\ C25_EightDigits(uniform_number) => vresult \in {"True", "False"}
        /\ ~C25_EightDigits(uniform_number) => vresult = "ValueError"
        /\ uniform_number = <<"0", "0", "0", "0", "0", "0", "0", "0">> =>
              vresult = "True"

C25_Witness ==
    /\ vpc = "returned"
    /\ uniform_number = <<"0", "0", "0", "0", "0", "0", "7", "9">>
    /\ C25_Z(uniform_number) % 5 # 0
    /\ vresult = "True"

\* C26: uniform_number_stream(S) for an 8-digit S yields, in strictly
\* increasing order, exactly the valid identifiers of [S, 99999999] (S
\* included when valid), and then terminates.
C26_StrictlyIncreasing(q) == \A i \in 1..(Len(q) - 1) : q[i] < q[i + 1]

C26_StreamYieldsValidInOrder ==
    /\ [](gpc \in {"loop", "exhausted"} =>
            /\ C26_StrictlyIncreasing(yielded)
            /\ {yielded[i] : i \in 1..Len(yielded)}
                  = {m \in gstart..(gn - 1) : is_valid_uniform_number(m)})
    /\ [](gpc = "exhausted" =>
            {yielded[i] : i \in 1..Len(yielded)}
               = {m \in gstart..99999999 : is_valid_uniform_number(m)})
    /\ [](gstart <= 99999999 => gpc # "ValueError")
    /\ <>(gstart <= 99999999 => gpc = "exhausted")

C26_Witness ==
    /\ gpc = "exhausted"
    /\ gstart = 99999970
    /\ yielded = <<99999970, 99999971, 99999975, 99999976, 99999981,
                   99999986, 99999992, 99999997>>

\* C21: for a payload, (identifier, period) is upserted into Accepted if and
\* only if a row is picked for the period and that row has at least seven
\* fields, none of the first seven is null and the name (index 2) is not
\* empty after trimming; otherwise Accepted is left unchanged.
C21_AcceptedIffNormalRow ==
    /\ rpc = "done" =>
          (row_ok <=>
              /\ picked # NoRow
              /\ Len(picked.f) >= 7
              /\ \A i \in 1..7 : picked.f[i] # Null
              /\ Strip(Str(picked.f[3])) # <<>>)
    /\ rpc = "done" => (row_ok <=> (kind # "none" /\ row_is_normal(kind)))
    /\ rpc \in {"data", "row"} => ~row_ok

C21_Witness ==
    /\ rpc = "done" /\ row_ok
    /\ picked.f[3] = StrVal(<<" ", "A">>)
    /\ ~row_hit

\* C22: for a payload, (identifier, period) is upserted into Flagged if and
\* only if a row is picked for the period and its import code (index 4) or
\* export code (index 5), trimmed and upper-cased, is one letter of A..K;
\* otherwise Flagged is left unchanged.
C22_Letter(x) ==
    /\ x.t = "str"
    /\ Upper(Strip(x.s)) \in {<<"A">>, <<"K">>}

C22_FlaggedIffGradeAToK ==
    /\ rpc = "done" =>
          (row_hit <=>
              /\ picked # NoRow
              /\ (C22_Letter(picked.f[5]) \/ C22_Letter(picked.f[6])))
    /\ rpc = "done" => (row_hit <=> (kind # "none" /\ RowFlagged(kind)))
    /\ rpc # "done" => ~row_hit

C22_Witness ==
    /\ rpc = "done" /\ row_hit /\ ~row_ok
    /\ picked.f[5] = StrVal(<<"L">>)
    /\ picked.f[6] = StrVal(<<" ", "k", " ">>)

\* C24: when retrieveDataList holds a list of at least 7 fields whose
\* period field (index 6) equals the requested period, pick_year_row
\* returns a row whose period field equals the requested period; the
\* prefix match on index 1 is used only when no row matches exactly.
C24_ExactMatch(entry, year) ==
    entry.list /\ Len(entry.f) >= 7 /\ Strip(Str(entry.f[7])) = year

C24_ExactMatchPreferred ==
    (rpc # "data" /\ \E i \in 1..Len(items) : C24_ExactMatch(items[i], target_year))
        => C24_ExactMatch(picked, target_year)

\* C23: whenever a request is issued for an identifier, ok.json and
\* hits.json hold exactly the in-memory Accepted and Flagged maps, an absent
\* file counting as the empty map.
C23_OnDisk(file) == IF file.st = "whole" THEN file.val ELSE {}

C23_MapsPersistedAtRequest ==
    pc = "post" =>
        /\ disk.ok.st \in {"whole", "absent"}
        /\ disk.hits.st \in {"whole", "absent"}
        /\ C23_OnDisk(disk.ok) = ok_map
        /\ C23_OnDisk(disk.hits) = hits

C23_Witness ==
    /\ pc = "post" /\ vat = 5 /\ tries = 0
    /\ ok_map = {0} /\ hits = {0}
    /\ disk.ok = Whole({0}) /\ disk.hits = Whole({0})
    /\ disk.state # Whole(5)

\* C27: the wait after the k-th 429 of a polling call (k >= 1, counted over
\* the whole call, a token refresh in between not resetting it) is the
\* Retry-After seconds when the header is a number, clamped below at 0; else
\* the time remaining to the HTTP date, clamped below at 0; else
\* min(base * 2^(k-1), 300), base being the configured base, or 2 when that
\* is 0.
C27_Wait(k) ==
    IF ra_hdr.kind = "number" THEN (IF ra_hdr.v < 0 THEN 0 ELSE ra_hdr.v)
    ELSE IF ra_hdr.kind = "date" THEN (IF ra_hdr.v < 0 THEN 0 ELSE ra_hdr.v)
    ELSE LET base == IF cooldown_on_warn = 0 THEN 2 ELSE cooldown_on_warn
         IN  IF base * (2 ^ (k - 1)) <= 300 THEN base * (2 ^ (k - 1)) ELSE 300

C27_WaitOfKth429OfCall ==
    wpc = "sleep" => (tries429 >= 1 /\ wait_sec = C27_Wait(tries429))

C27_Witness ==
    /\ wpc = "sleep" /\ refreshed
    /\ tries429 = 2 /\ consec429 = 1
    /\ cooldown_on_warn = 0 /\ ra_hdr.kind = "garbage"
    /\ wait_sec = 4

\* C27 as stated: k counts the consecutive 429 answers.
C27_WaitOfKthConsecutive429 ==
    wpc = "sleep" => (consec429 >= 1 /\ wait_sec = C27_Wait(consec429))

\* C28: every single rate-limit wait is at most 300 seconds, whatever the
\* attempt number, the configured base and the Retry-After header.
C28_EveryWaitAtMostCap ==
    wpc = "sleep" => wait_sec <= 300

\* C29: within a process the token changes only by a successful refresh (a
\* token different from the held one); the retry that follows the refresh
\* and every later request carry the held token; a response whose echoed
\* token differs from the held token leads to the fatal stop "verifySHidden
\* mismatch", and no other response does.
C29_TokenHeldByProcess ==
    /\ [][(pc # "idle" /\ pc' # "idle" /\ VERIFY_S_HIDDEN' # VERIFY_S_HIDDEN) =>
             /\ pc = "post" /\ pc' = "post"
             /\ refreshCalls' = refreshCalls + 1
             /\ VERIFY_S_HIDDEN' \in 0..MaxToken
             /\ vat' = vat /\ lastReq' = vat
             /\ reqToken' = VERIFY_S_HIDDEN']_vars
    /\ [](pc = "post" => reqToken = VERIFY_S_HIDDEN)
    /\ [](pc # "idle" =>
            /\ echoDiff <=> fatalReason = "verifySHidden mismatch"
            /\ echoDiff => (fatalId = vat /\ pc = "saving" /\ after = "exit_fatal"))

C29_Witness ==
    /\ pc = "post" /\ vat = 5 /\ done = {0}
    /\ refreshCalls = 1
    /\ VERIFY_S_HIDDEN = 1 /\ reqToken = 1

\* C30: a fatal stop, once the cursor and both maps are on disk, appends
\* exactly one entry titled 'Fatal stop' whose details hold the failing
\* identifier and the reason, and the response data (status, headers, body
\* snippet) when a response was received; the earlier entries of errors.log
\* stay as they are, and the process ends with a non-zero status.
C30_FatalStopLogsOneEntry ==
    /\ [][(pc # "idle" /\ outcome' = "FATAL") =>
             /\ disk' = disk
             /\ disk.state = Whole(vat)
             /\ disk.hits = Whole(hits) /\ disk.ok = Whole(ok_map)
             /\ errlog' = Append(errlog, "Fatal stop")
             /\ fatalEntry = NoEntry
             /\ fatalEntry'.ban_no = vat
             /\ fatalEntry'.reason = fatalReason /\ fatalReason # "none"
             /\ fatalEntry'.response <=>
                   fatalReason \in AnomalyReasons \cup {"Too many 429 retries"}
             /\ pc' = "idle" /\ exit_status' # 0]_vars
    /\ [][errlog' # errlog =>
             /\ Len(errlog') > Len(errlog)
             /\ SubSeq(errlog', 1, Len(errlog)) = errlog]_vars
    /\ [][(errlog' # errlog /\ errlog'[Len(errlog')] = "Fatal stop") =>
             (pc # "idle" /\ outcome' = "FATAL")]_vars

C30_Witness ==
    /\ outcome = "FATAL" /\ exit_status = 1
    /\ Len(errlog) = 3 /\ errlog[3] = "Fatal stop"
    /\ fatalEntry = [ban_no |-> 5, reason |-> "HTTP status", response |-> TRUE]
    /\ disk.state = Whole(5) /\ disk.ok = Whole({0})

\* C31: in the standalone runner's polling client the automatic token
\* refresh is tried only once per call: after one refresh-and-retry for an
\* identifier, a further result != success answer escalates to the fatal
\* stop instead of refreshing again.
C31_SoloRefreshOncePerCall == solo_refreshes <= 1

\* C33: in the standalone runner a process kill during save_state or
\* save_json leaves state.json, hits.json and ok.json each holding either
\* the complete previous content or the complete new content, never a torn
\* or empty file.
C33_SoloKillLeavesOldOrNew ==
    solo_pc = "killed" =>
        /\ solo_disk.state \in {solo_before.state, Whole(FatalCursor(solo_ban))}
        /\ solo_disk.hits \in {solo_before.hits, Whole(solo_hits)}
        /\ solo_disk.ok \in {solo_before.ok, Whole(solo_ok)}

\* C32: each call of the polling client for an identifier terminates (it
\* returns a payload or performs a fatal stop) provided the server answers
\* 429 only finitely many times for that identifier; with a ceiling N >= 0
\* configured it has received at most max(N, 1) 429 answers when it
\* terminates, whatever the server does.
C32_CallTerminates ==
    /\ <>(wpc \in {"ended", "fatal"})
    /\ [](max_429_retries >= 0 => tries429 <= Max(max_429_retries, 1))
    /\ []((wpc = "fatal") =>
             (max_429_retries >= 0 /\ tries429 = Max(max_429_retries, 1)))

C32_Witness ==
    /\ wpc = "fatal" /\ max_429_retries = 2 /\ tries429 = 2 /\ consec429 = 1
    /\ refreshed

\* C32 as stated: with a ceiling N >= 0 the call has received at most N 429
\* answers.
C32_AtMostCeiling429 ==
    max_429_retries >= 0 => tries429 <= max_429_retries

\* C34: within a run started without a start override, the values written
\* to the persisted cursor (by checkpoints, interruption, internal error,
\* fatal stop and completion) never decrease, and each is >= the cursor
\* loaded at startup.
C34_CursorWritesNonDecreasing ==
    [][(pc # "idle" /\ ~override /\ disk'.state # disk.state) =>
          /\ disk'.state.st = "whole"
          /\ disk'.state.val >= runStart
          /\ disk.state.st = "whole" => disk'.state.val >= disk.state.val]_vars

C34_Witness ==
    /\ pc # "idle" /\ ~override /\ prevOutcome = "INTERRUPTED"
    /\ runStart = 1 /\ cursorAtStart = Whole(1)
    /\ processed = 1 /\ disk.state = Whole(UpperBound + 1)

\* C35: a run started from the cursor written by a completed run
\* (100000000) issues no request, leaves the cursor and both maps as they
\* are, appends no diagnostic entry, and ends in COMPLETED without a failure
\* status.
C35_RunFromCompletedCursorCompletes ==
    [][(pc # "idle" /\ pc' = "idle" /\ ~override
            /\ runStart = CompletedCursor
            /\ outcome' \notin {"KILLED", "INTERRUPTED"}) =>
          /\ outcome' = "COMPLETED" /\ exit_status' = 0
          /\ reqs = {}
          /\ errlog' = errlog
          /\ disk'.state = cursorAtStart
          /\ disk'.hits = Whole(load_json(disk', "hits"))
          /\ disk'.ok = Whole(load_json(disk', "ok"))]_vars

\* C36: the flag trigger is a subset of the accept trigger: every
\* (identifier, period) the loop body upserts into Flagged is also upserted
\* into Accepted while processing the same response.
C36_FlaggedAlsoAccepted == rpc = "done" => (row_hit => row_ok)

\* C37: load_json returns a mapping for every state of the file: absent,
\* unparsable, parsable with an object root, and parsable with a non-object
\* root (array, number, string, null) all yield a dict, so the orchestrator
\* can always upsert into the loaded map.
C37_LoadJsonReturnsDict ==
    jpc \notin {"idle", "start"} => (jresult.type = "dict" /\ jpc # "TypeError")

\* C40: the incremental build_and_save fetches only the (banNo, year) pairs
\* present in hits.json and missing from the existing company_details.json,
\* never removes or overwrites a pair that already exists in the output,
\* writes the output after each pair it fills, and issues no request and no
\* write when nothing is missing.
C40_Before == IF at_call.st = "whole" THEN at_call.val ELSE NoPairs

C40_IncrementalBuild ==
    bpc \notin {"idle", "call"} =>
        /\ \A i \in 1..Len(fetched) :
              /\ hits_json.st = "whole" /\ hits_json.val[fetched[i]] = "dict"
              /\ C40_Before[fetched[i]] = "absent"
              /\ \A j \in 1..Len(fetched) : fetched[j] = fetched[i] => j = i
        /\ \A p \in BuildPairs :
              C40_Before[p] # "absent" =>
                  (details_json.st = "whole" /\ details_json.val[p] = C40_Before[p])
        /\ bwrites = Cardinality({p \in BuildPairs : existing[p] = "new"})
        /\ bwrites > 0 => details_json = MapWhole(existing)
        /\ bwrites = 0 => details_json = at_call
        /\ (/\ hits_json.st = "whole"
            /\ \A p \in BuildPairs :
                  hits_json.val[p] = "dict" => C40_Before[p] # "absent")
           => (/\ bpc = "returned" /\ fetched = <<>>
               /\ bwrites = 0 /\ token_reqs = 0)

C40_Witness ==
    /\ bpc = "returned" /\ token_reqs = 1
    /\ at_call = MapWhole([p \in BuildPairs |->
                              IF p = <<0, 113>> THEN "old" ELSE "absent"])
    /\ hits_json.val = [p \in BuildPairs |-> "dict"]
    /\ fetched = << <<5, 113>>, <<5, 114>> >>
    /\ bwrites = 1
    /\ details_json.val[<<0, 113>>] = "old"
    /\ details_json.val[<<5, 113>>] = "absent"
    /\ details_json.val[<<5, 114>>] = "new"

\* C38: the startup reconciliation loop of main (repeat build_and_save and
\* the export while the pair count of company_details.json differs from
\* that of hits.json) terminates for every content of the two files and
\* every outcome of the detail fetches: the scan loop is reached, or the
\* exporter has ended the process.
C38_ReconciliationTerminates == <>(qpc \in {"scan", "exit"})

\* C39: run_checks never loops forever: every iteration that repeats has
\* strictly increased the lagging count (the data rows of the sheet, or the
\* pairs of company_details.json), and an update that does not increase the
\* count exits the process with status 1; hence the loop ends.
C39_RunChecksTerminates ==
    /\ <>(cpc \in {"done", "exit1", "exit_export", "crashed"})
    /\ [][(cpc = "export" /\ cpc' = "top") => xlsx_rows' > xlsx_rows]_vars
    /\ [][(cpc = "export" /\ cpc' # "exit_export" /\ xlsx_rows' <= xlsx_rows)
             => cpc' = "exit1"]_vars
    /\ [][(cpc = "build" /\ cpc' = "top") =>
             PairCount(LoadOrEmpty(details_json)) > prev]_vars
    /\ [][(cpc = "build" /\ bpc = "returned" /\ bpc' = "idle"
             /\ PairCount(LoadOrEmpty(details_json)) <= prev)
             => cpc' = "exit1"]_vars
    /\ [][(cpc' = "top" /\ cpc # "top") => cpc \in {"export", "build"}]_vars
    /\ [][(cpc = "step2" /\ cpc' = "build") =>
             prev' = PairCount(LoadOrEmpty(details_json))]_vars

C39_Witness ==
    /\ cpc = "done" /\ prev = 1 /\ xlsx_rows = 3
    /\ PairCount(LoadOrEmpty(details_json)) = 3
    /\ PairCount(LoadOrEmpty(hits_json)) = 3
    /\ at_call.st = "whole" /\ PairCount(at_call.val) = 1
    /\ bwrites = 2

====
